---- MODULE Spec2Model ----
(***************************************************************************)
(* Master controller of the offline home-automation hub (src/app.ino):     *)
(* the slave directory, the command / status reconciliation over ESP-NOW,  *)
(* the relay scheduler and the relay log and snapshot files on the SD card.*)
(*                                                                         *)
(* Every handler of the sketch is one action and runs to completion.  The  *)
(* display, LED and rotary-encoder code only reads the state modelled here *)
(* and is left out; onDataSent only prints.                                *)
(***************************************************************************)
EXTENDS Integers, Sequences, FiniteSets, TLC

(***************************************************************************)
(* Program constants.                                                      *)
(***************************************************************************)
MAX_SLAVES == 10

MAX_SCHEDULES == 20

\* sizeof(StatusData): uint8_t relayStates[4]
StatusDataSize == 4

\* unsigned long and uint32_t are 32 bits wide on the ESP32; a value is kept
\* as <<high half, low half>>, each half below TwoPow16
TwoPow16 == 65536

\* processSchedules keeps an executed schedule this many milliseconds
RetentionMs == 60000

\* handleWebRoot shows this many lines of /relays.txt
RecentLines == 10

\* handleSchedule accepts 1 .. MaxMinutes minutes
MaxMinutes == 1440

\* RTClib: seconds from 1970-01-01 to 2000-01-01
SECONDS_FROM_1970_TO_2000 == 946684800

(***************************************************************************)
(* 32-bit unsigned arithmetic (unsigned long, uint32_t), wrapping.         *)
(***************************************************************************)
\* the value n, 0 <= n < 2^31
U32(n) == <<n \div TwoPow16, n % TwoPow16>>

U32Add(a, b) ==
    LET lo == a[2] + b[2]
    IN <<(a[1] + b[1] + (lo \div TwoPow16)) % TwoPow16, lo % TwoPow16>>

U32Sub(a, b) ==
    LET borrow == IF a[2] < b[2] THEN 1 ELSE 0
    IN <<(a[1] - b[1] - borrow + 2 * TwoPow16) % TwoPow16,
         (a[2] - b[2] + TwoPow16) % TwoPow16>>

\* a * k for 0 <= k < 2^15
U32Mul(a, k) ==
    LET lo == a[2] * k
    IN <<(a[1] * k + (lo \div TwoPow16)) % TwoPow16, lo % TwoPow16>>

U32Lt(a, b) == a[1] < b[1] \/ (a[1] = b[1] /\ a[2] < b[2])

U32Le(a, b) == a = b \/ U32Lt(a, b)

(***************************************************************************)
(* Bounds of the model.                                                    *)
(***************************************************************************)
\* Spec and SpecDirectory run at most this many handlers
MaxOps == 3

\* the clocks are advanced at most this many times
MaxElapse == 1

\* at most this many handlers find the SD card failing
MaxSdFaults == 1

\* SpecTick stores at most this many schedules at a time
MaxQueue == 3

(***************************************************************************)
(* Strings.  A TLA+ string is used where the sketch only builds, stores    *)
(* and compares a String; a sequence of one-character strings is used      *)
(* where it cuts the String by position (the log's timestamp).             *)
(***************************************************************************)
Digits == <<"0", "1", "2", "3", "4", "5", "6", "7", "8", "9">>

HexDigits == <<"0", "1", "2", "3", "4", "5", "6", "7", "8", "9",
               "a", "b", "c", "d", "e", "f">>

\* String(n) for n >= 0, as a TLA+ string
RECURSIVE DecStr(_)
DecStr(n) ==
    IF n < 10 THEN Digits[n + 1] ELSE DecStr(n \div 10) \o Digits[(n % 10) + 1]

\* String(n) for n >= 0, as a sequence of characters
RECURSIVE DecChars(_)
DecChars(n) ==
    IF n < 10 THEN <<Digits[n + 1]>>
    ELSE Append(DecChars(n \div 10), Digits[(n % 10) + 1])

\* "%02x" of one byte
Hex2(b) == HexDigits[(b \div 16) + 1] \o HexDigits[(b % 16) + 1]

getMacString(mac) ==
    Hex2(mac[1]) \o ":" \o Hex2(mac[2]) \o ":" \o Hex2(mac[3]) \o ":" \o
    Hex2(mac[4]) \o ":" \o Hex2(mac[5]) \o ":" \o Hex2(mac[6])

\* Arduino String::substring(left, right) on a sequence of characters
\* (positions count from 0, right is exclusive and clipped to the length)
Substring(s, left, right) ==
    LET lo == IF left > right THEN right ELSE left
        hi0 == IF left > right THEN left ELSE right
        hi == IF hi0 > Len(s) THEN Len(s) ELSE hi0
    IN IF lo >= Len(s) THEN << >> ELSE SubSeq(s, lo + 1, hi)

DigitValue(c) == CHOOSE d \in 0 .. 9 : Digits[d + 1] = c

IsDigit(c) == \E d \in 0 .. 9 : Digits[d + 1] = c

RECURSIVE SkipSpaces(_)
SkipSpaces(s) ==
    IF s # << >> /\ Head(s) = " " THEN SkipSpaces(Tail(s)) ELSE s

RECURSIVE ReadDigits(_, _)
ReadDigits(s, acc) ==
    IF s # << >> /\ IsDigit(Head(s))
    THEN ReadDigits(Tail(s), 10 * acc + DigitValue(Head(s)))
    ELSE acc

\* Arduino String::toInt(), which is atol(): leading blanks are skipped, an
\* optional sign is read, then digits up to the first other character
toInt(s) ==
    LET t == SkipSpaces(s)
    IN IF t # << >> /\ Head(t) = "-" THEN 0 - ReadDigits(Tail(t), 0)
       ELSE IF t # << >> /\ Head(t) = "+" THEN ReadDigits(Tail(t), 0)
       ELSE ReadDigits(t, 0)

(***************************************************************************)
(* The real-time clock.  A DateTime is <<year, month, day, hour, minute,   *)
(* second>>.                                                               *)
(***************************************************************************)
\* the instants rtc.now() returns, in the order the clock passes them
RtcInstants ==
    << <<2025, 11, 14, 10, 30, 45>>,
       <<2025, 11, 14, 10, 31, 45>>,
       <<2025, 11, 14, 10, 32, 45>> >>

\* millis() after 49 days and 17 hours without a reset, 167296 ms short of
\* 2^32, and the instant rtc.now() returns then
Uptime == U32Mul(U32Mul(U32((49 * 24) + 17), 3600), 1000)

RtcAfterUptime == <<2026, 1, 3, 3, 30, 45>>

daysInMonth == <<31, 28, 31, 30, 31, 30, 31, 31, 30, 31, 30, 31>>

RECURSIVE DaysBefore(_)
DaysBefore(m) ==
    IF m <= 1 THEN 0
    ELSE (IF m - 1 <= 12 THEN daysInMonth[m - 1] ELSE 0) + DaysBefore(m - 1)

\* RTClib date2days(y, m, d), y counted from 2000
date2days(y, m, d) ==
    LET yy == IF y >= 2000 THEN y - 2000 ELSE y
        days == d + DaysBefore(m) + (IF m > 2 /\ yy % 4 = 0 THEN 1 ELSE 0)
    IN days + 365 * yy + ((yy + 3) \div 4) - 1

\* RTClib DateTime(year, month, day, hour, min, sec): the year is stored as
\* an offset from 2000, every other field in a uint8_t
DateTime(year, month, day, hour, min, sec) ==
    << (IF year >= 2000 THEN year - 2000 ELSE year) % 256,
       month % 256, day % 256, hour % 256, min % 256, sec % 256 >>

\* RTClib DateTime::unixtime() of a stored DateTime, a uint32_t:
\* ((days * 24 + hh) * 60 + mm) * 60 + ss + SECONDS_FROM_1970_TO_2000
unixtime(dt) ==
    LET days == date2days(dt[1], dt[2], dt[3])
        hours == U32Add(U32Mul(U32(days), 24), U32(dt[4]))
        mins == U32Add(U32Mul(hours, 60), U32(dt[5]))
        secs == U32Add(U32Mul(mins, 60), U32(dt[6]))
    IN U32Add(secs, U32(SECONDS_FROM_1970_TO_2000))

\* rtc.now() as the stored DateTime
RtcNow(i) ==
    LET t == IF i <= Len(RtcInstants) THEN RtcInstants[i] ELSE RtcAfterUptime
    IN DateTime(t[1], t[2], t[3], t[4], t[5], t[6])

\* the timestamp logRelayChange writes: the fields are not zero-padded
Timestamp(dt) ==
    DecChars(dt[1] + 2000) \o <<"-">> \o DecChars(dt[2]) \o <<"-">> \o
    DecChars(dt[3]) \o <<" ">> \o DecChars(dt[4]) \o <<":">> \o
    DecChars(dt[5]) \o <<":">> \o DecChars(dt[6])

\* the DateTime logRelayChange rebuilds from a line's timestamp: the fields
\* are cut at fixed positions
ParseTimestamp(s) ==
    DateTime(toInt(Substring(s, 0, 4)), toInt(Substring(s, 5, 7)),
             toInt(Substring(s, 8, 10)), toInt(Substring(s, 11, 13)),
             toInt(Substring(s, 14, 16)), toInt(Substring(s, 17, 19)))

(***************************************************************************)
(* The state of the sketch.                                                *)
(***************************************************************************)
VARIABLES
    masterRelayStates,  \* bool masterRelayStates[4]
    pins,               \* the level driven on relayPins[0..3]
    slaves,             \* SlaveInfo slaves[MAX_SLAVES]
    slaveCount,         \* int slaveCount
    peers,              \* the ESP-NOW peer list: the addresses added to it
    schedules,          \* ScheduleItem schedules[MAX_SCHEDULES]
    scheduleCount,      \* int scheduleCount
    millis,             \* the millisecond counter, an unsigned long
    rtc,                \* the position of the real-time clock in RtcInstants
    relaysFile,         \* the lines of /relays.txt after its header
    statesFile,         \* the lines of /states.txt after its header
    slavesFile,         \* the lines of /slaves.txt after its header
    ops,                \* how many handlers have run (counted up to MaxOps)
    elapsed,            \* how often the clocks were advanced
    sdFaults,           \* how many handlers found the SD card failing
    last,               \* the handler that ran last, with its inputs
    race                \* where a command of loop() and a status report
                        \* of the receive callback stand, step by step

vars == <<masterRelayStates, pins, slaves, slaveCount, peers, schedules,
          scheduleCount, millis, rtc, relaysFile, statesFile, slavesFile,
          ops, elapsed, sdFaults, last, race>>

Relays == 0 .. 3

AllOff == [i \in Relays |-> FALSE]

\* a SlaveInfo no handler has written: the zero-initialised global
EmptySlave ==
    [macAddress |-> <<0, 0, 0, 0, 0, 0>>, active |-> FALSE,
     relayStates |-> AllOff, name |-> ""]

\* a ScheduleItem no handler has written
EmptySchedule ==
    [roomIndex |-> 0, relayIndex |-> 0, targetState |-> FALSE,
     targetTime |-> U32(0), executed |-> FALSE]

\* the addresses of the model
Mac(i) == <<2, 0, 0, 0, 0, i>>

\* what the SD card does during one handler: it works, or SD.begin fails.
\* On a mounted card SD.open succeeds.
SdOutcomes == {"ok", "nomount"}

(***************************************************************************)
(* /relays.txt, /states.txt and /slaves.txt.                               *)
(***************************************************************************)
roomName(roomIndex) ==
    IF roomIndex = -1 THEN "Master" ELSE "Slave" \o DecStr(roomIndex + 1)

stateStr(state) == IF state THEN "ON" ELSE "OFF"

\* line.indexOf(roomName + "," + String(relayIndex)) > 0.  A line is
\* timestamp,room,relay,state,duration with a one-digit relay, and a room
\* name starts with a letter no other field holds, so the text is found
\* exactly when it is the line's room and relay.
LineMatches(line, room, relayIndex) ==
    line.room \o "," \o DecStr(line.relay) = room \o "," \o DecStr(relayIndex)

\* the last line of the file that matches (0: none)
LastLine(file, room, relayIndex) ==
    LET hits == {k \in 1 .. Len(file) : LineMatches(file[k], room, relayIndex)}
    IN IF hits = {} THEN 0 ELSE CHOOSE k \in hits : \A j \in hits : j <= k

\* the text logRelayChange compares with stateStr: from behind the line's
\* second comma to its last comma, which is relay,state
PrevState(line) == DecStr(line.relay) \o "," \o line.state

\* the duration logRelayChange writes
Duration(file, roomIndex, relayIndex, state, now) ==
    LET k == LastLine(file, roomName(roomIndex), relayIndex)
    IN IF k # 0 /\ PrevState(file[k]) # stateStr(state)
       THEN U32Sub(unixtime(now), unixtime(ParseTimestamp(file[k].timestamp)))
       ELSE U32(0)

\* logRelayChange(roomIndex, relayIndex, state): the file afterwards
logRelayChange(file, roomIndex, relayIndex, state, now, sd) ==
    IF sd # "ok" THEN file
    ELSE Append(file,
                [timestamp |-> Timestamp(now),
                 room |-> roomName(roomIndex),
                 relay |-> relayIndex,
                 state |-> stateStr(state),
                 duration |-> Duration(file, roomIndex, relayIndex, state, now)])

\* the lines saveRelayStates writes: the master's, then every slave's
StateLines(master, slvs, count) ==
    [k \in 1 .. 4 * (count + 1) |->
        LET room == ((k - 1) \div 4) - 1
            i == (k - 1) % 4
        IN [room |-> roomName(room), relay |-> i,
            state |-> stateStr(IF room = -1 THEN master[i]
                               ELSE slvs[room].relayStates[i])]]

\* saveRelayStates(): the file afterwards
saveRelayStates(file, master, slvs, count, sd) ==
    IF sd # "ok" THEN file ELSE StateLines(master, slvs, count)

\* saveSlaveInfo(): the file afterwards
saveSlaveInfo(file, slvs, count, sd) ==
    IF sd # "ok" THEN file
    ELSE [k \in 1 .. count |->
             [mac |-> getMacString(slvs[k - 1].macAddress),
              name |-> slvs[k - 1].name]]

(***************************************************************************)
(* The handlers, as functions of the memory they work on.  A memory m      *)
(* holds the relay tables and the two files a command writes, and counts   *)
(* the calls of logRelayChange and saveRelayStates and the messages handed *)
(* to esp_now_send since the handler started.                              *)
(***************************************************************************)
Memory ==
    [master |-> masterRelayStates, pins |-> pins, slaves |-> slaves,
     log |-> relaysFile, states |-> statesFile,
     logCalls |-> 0, saveCalls |-> 0, sends |-> << >>]

\* the relay lines are active LOW
PinLevel(state) == IF state THEN "LOW" ELSE "HIGH"

\* logRelayChange(...); saveRelayStates(); as every writer of a relay calls
\* them, on the tables m already holds
LogAndSave(m, count, roomIndex, relayIndex, state, now, sd) ==
    [m EXCEPT
        !.log = logRelayChange(m.log, roomIndex, relayIndex, state, now, sd),
        !.states = saveRelayStates(m.states, m.master, m.slaves, count, sd),
        !.logCalls = @ + 1,
        !.saveCalls = @ + 1]

\* the master branch of a command: the table, the pin, the log, the snapshot
setMasterRelay(m, count, relayIndex, state, now, sd) ==
    LogAndSave([m EXCEPT !.master[relayIndex] = state,
                         !.pins[relayIndex] = PinLevel(state)],
               count, -1, relayIndex, state, now, sd)

\* sendCommandToSlave without the test of what esp_now_send returns
sendCommandToSlaveUnchecked(m, count, slaveIndex, relayIndex, state, result, now, sd) ==
    IF slaveIndex < 0 \/ slaveIndex >= count THEN m
    ELSE LogAndSave(
            [m EXCEPT
                !.sends = Append(@, [mac |-> m.slaves[slaveIndex].macAddress,
                                     targetRelay |-> relayIndex,
                                     state |-> state, result |-> result]),
                !.slaves[slaveIndex].relayStates[relayIndex] = state],
            count, slaveIndex, relayIndex, state, now, sd)

\* sendCommandToSlave(slaveIndex, relayIndex, state); result is what
\* esp_now_send returns
sendCommandToSlave(m, count, slaveIndex, relayIndex, state, result, now, sd) ==
    IF slaveIndex < 0 \/ slaveIndex >= count THEN m
    ELSE LET sent == [m EXCEPT !.sends =
                        Append(@, [mac |-> m.slaves[slaveIndex].macAddress,
                                   targetRelay |-> relayIndex,
                                   state |-> state, result |-> result])]
         IN IF result = "ok"
            THEN LogAndSave(
                    [sent EXCEPT
                        !.slaves[slaveIndex].relayStates[relayIndex] = state],
                    count, slaveIndex, relayIndex, state, now, sd)
            ELSE sent

\* handleRelayToggle, for a request that has its three parameters
handleRelayToggle(m, count, roomIndex, relayIndex, state, result, now, sd) ==
    IF roomIndex = -1
    THEN IF relayIndex >= 0 /\ relayIndex < 4
         THEN setMasterRelay(m, count, relayIndex, state, now, sd)
         ELSE m
    ELSE IF roomIndex >= 0 /\ roomIndex < count
            /\ relayIndex >= 0 /\ relayIndex < 4
         THEN sendCommandToSlave(m, count, roomIndex, relayIndex, state,
                                 result, now, sd)
         ELSE m

\* buttons & (1 << i)
Pressed(buttons, i) == (buttons \div (2 ^ i)) % 2 = 1

\* handleTM1638Buttons: the loop over the first four buttons, from button i;
\* results[i] is what esp_now_send returns for button i
RECURSIVE handleTM1638Buttons(_, _, _, _, _, _, _, _)
handleTM1638Buttons(m, count, buttons, rotaryPosition, i, results, now, sd) ==
    IF i >= 4 THEN m
    ELSE LET next ==
               IF ~Pressed(buttons, i) THEN m
               ELSE IF rotaryPosition = 0
               THEN setMasterRelay(m, count, i, ~m.master[i], now, sd)
               ELSE IF rotaryPosition <= count
               THEN sendCommandToSlave(
                        m, count, rotaryPosition - 1, i,
                        ~m.slaves[rotaryPosition - 1].relayStates[i],
                        results[i], now, sd)
               ELSE m
         IN handleTM1638Buttons(next, count, buttons, rotaryPosition, i + 1,
                                results, now, sd)

(***************************************************************************)
(* The directory and the receive callback.                                 *)
(***************************************************************************)
\* esp_now_add_peer: ESP-NOW refuses an address that is in its peer list
\* (ESP_ERR_ESPNOW_EXIST); accept says whether it takes another one
esp_now_add_peer(peerList, mac, accept) ==
    IF mac \in peerList THEN "exist" ELSE IF accept THEN "ok" ELSE "fail"

\* the loop at the head of onDataReceived: the first slave with this
\* address, or -1
\* the search of onDataReceived finding no sender
FindSlaveNone(slvs, count, mac) == -1

FindSlave(slvs, count, mac) ==
    LET hits == {i \in 0 .. count - 1 : slvs[i].macAddress = mac}
    IN IF hits = {} THEN -1 ELSE CHOOSE i \in hits : \A j \in hits : i <= j

\* statusData->relayStates[i] read as a C truth value
ReportedStateNonZero(data, i) == data[i + 1] # 0

\* statusData->relayStates[i] == 1
ReportedState(data, i) == data[i + 1] = 1

\* the loop over the four relays without the comparison with the table
RECURSIVE applyStatusUnconditional(_, _, _, _, _, _, _)
applyStatusUnconditional(m, count, slaveIndex, data, i, now, sd) ==
    IF i >= 4 THEN m
    ELSE applyStatusUnconditional(
            LogAndSave(
                [m EXCEPT !.slaves[slaveIndex].relayStates[i] =
                              ReportedState(data, i)],
                count, slaveIndex, i, ReportedState(data, i), now, sd),
            count, slaveIndex, data, i + 1, now, sd)

\* the loop over the four relays, left at the first relay that differs
RECURSIVE applyStatusFirstOnly(_, _, _, _, _, _, _)
applyStatusFirstOnly(m, count, slaveIndex, data, i, now, sd) ==
    IF i >= 4 THEN m
    ELSE IF m.slaves[slaveIndex].relayStates[i] # ReportedState(data, i)
    THEN LogAndSave(
            [m EXCEPT !.slaves[slaveIndex].relayStates[i] =
                          ReportedState(data, i)],
            count, slaveIndex, i, ReportedState(data, i), now, sd)
    ELSE applyStatusFirstOnly(m, count, slaveIndex, data, i + 1, now, sd)

\* the loop of onDataReceived over the four relays of a status report,
\* from relay i
RECURSIVE applyStatus(_, _, _, _, _, _, _)
applyStatus(m, count, slaveIndex, data, i, now, sd) ==
    IF i >= 4 THEN m
    ELSE LET newState == ReportedState(data, i)
             next ==
               IF m.slaves[slaveIndex].relayStates[i] # newState
               THEN LogAndSave(
                       [m EXCEPT
                           !.slaves[slaveIndex].relayStates[i] = newState],
                       count, slaveIndex, i, newState, now, sd)
               ELSE m
         IN applyStatus(next, count, slaveIndex, data, i + 1, now, sd)

\* the directory a registration works on
Directory ==
    [slaves |-> slaves, slaveCount |-> slaveCount, peers |-> peers,
     slavesFile |-> slavesFile, dirSaves |-> 0]

\* commitSlave without the test of what esp_now_add_peer returns
commitSlaveUnchecked(d, entry, accept, sd) ==
    LET written == [d.slaves EXCEPT ![d.slaveCount] = entry]
    IN [slaves |-> written,
        slaveCount |-> d.slaveCount + 1,
        peers |-> d.peers \cup {entry.macAddress},
        slavesFile |-> saveSlaveInfo(d.slavesFile, written,
                                     d.slaveCount + 1, sd),
        dirSaves |-> d.dirSaves + 1]

\* commitSlave with the count raised before the peer is added
commitSlaveCountFirst(d, entry, accept, sd) ==
    LET written == [d.slaves EXCEPT ![d.slaveCount] = entry]
        result == esp_now_add_peer(d.peers, entry.macAddress, accept)
    IN IF result = "ok"
       THEN [slaves |-> written,
             slaveCount |-> d.slaveCount + 1,
             peers |-> d.peers \cup {entry.macAddress},
             slavesFile |-> saveSlaveInfo(d.slavesFile, written,
                                          d.slaveCount + 1, sd),
             dirSaves |-> d.dirSaves + 1]
       ELSE [d EXCEPT !.slaves = written, !.slaveCount = @ + 1]

\* slaves[slaveCount] is written, then the peer is added; the count goes up
\* and the directory is saved only if ESP-NOW took the peer
commitSlave(d, entry, accept, sd) ==
    LET written == [d.slaves EXCEPT ![d.slaveCount] = entry]
        result == esp_now_add_peer(d.peers, entry.macAddress, accept)
    IN IF result = "ok"
       THEN [slaves |-> written,
             slaveCount |-> d.slaveCount + 1,
             peers |-> d.peers \cup {entry.macAddress},
             slavesFile |-> saveSlaveInfo(d.slavesFile, written,
                                          d.slaveCount + 1, sd),
             dirSaves |-> d.dirSaves + 1]
       ELSE [d EXCEPT !.slaves = written]

\* the branch for an unknown sender, taking the last slot of a full table
autoAddSlaveEvict(d, mac, accept, sd) ==
    commitSlaveUnchecked(
        [d EXCEPT !.slaveCount = IF @ < MAX_SLAVES THEN @ ELSE MAX_SLAVES - 1],
        [macAddress |-> mac, active |-> TRUE, relayStates |-> AllOff,
         name |-> "Auto " \o getMacString(mac)],
        accept, sd)

\* the branch of onDataReceived for a sender that is not in the directory
autoAddSlave(d, mac, accept, sd) ==
    IF d.slaveCount < MAX_SLAVES
    THEN commitSlave(d,
                     [macAddress |-> mac, active |-> TRUE,
                      relayStates |-> AllOff,
                      name |-> "Auto " \o getMacString(mac)],
                     accept, sd)
    ELSE d

\* handleAddSlave; req.parsed says whether sscanf read six numbers,
\* req.macBytes are the six ints it read
handleAddSlave(d, req, accept, sd) ==
    IF req.hasParams /\ d.slaveCount < MAX_SLAVES /\ req.parsed
    THEN commitSlave(d,
                     [macAddress |-> [k \in 1 .. 6 |-> req.macBytes[k] % 256],
                      active |-> FALSE,
                      relayStates |-> AllOff,
                      name |-> req.name],
                     accept, sd)
    ELSE d

(***************************************************************************)
(* The scheduler.                                                          *)
(***************************************************************************)
\* handleSchedule storing over slot 0 where the table is full
handleScheduleNoCap(scheds, count, req, now) ==
    IF req.hasParams /\ req.minutes > 0 /\ req.minutes <= MaxMinutes
    THEN [schedules |->
             [scheds EXCEPT ![count % MAX_SCHEDULES] =
                 [roomIndex |-> req.roomIndex,
                  relayIndex |-> req.relayIndex,
                  targetState |-> req.state,
                  targetTime |-> U32Add(now, U32(req.minutes * 60 * 1000)),
                  executed |-> FALSE]],
          scheduleCount |-> IF count < MAX_SCHEDULES THEN count + 1
                            ELSE count]
    ELSE [schedules |-> scheds, scheduleCount |-> count]

\* handleSchedule taking a delay of 0 minutes
handleScheduleZeroDelay(scheds, count, req, now) ==
    IF req.hasParams /\ count < MAX_SCHEDULES
       /\ req.minutes >= 0 /\ req.minutes <= MaxMinutes
    THEN [schedules |->
             [scheds EXCEPT ![count] =
                 [roomIndex |-> req.roomIndex,
                  relayIndex |-> req.relayIndex,
                  targetState |-> req.state,
                  targetTime |-> U32Add(now, U32(req.minutes * 60 * 1000)),
                  executed |-> FALSE]],
          scheduleCount |-> count + 1]
    ELSE [schedules |-> scheds, scheduleCount |-> count]

\* handleSchedule: the table and the count afterwards
handleSchedule(scheds, count, req, now) ==
    IF req.hasParams /\ count < MAX_SCHEDULES
       /\ req.minutes > 0 /\ req.minutes <= MaxMinutes
    THEN [schedules |->
             [scheds EXCEPT ![count] =
                 [roomIndex |-> req.roomIndex,
                  relayIndex |-> req.relayIndex,
                  targetState |-> req.state,
                  targetTime |-> U32Add(now, U32(req.minutes * 60 * 1000)),
                  executed |-> FALSE]],
          scheduleCount |-> count + 1]
    ELSE [schedules |-> scheds, scheduleCount |-> count]

\* the first loop of processSchedules marking a schedule only when its
\* command was carried out
RECURSIVE executeSchedulesRetry(_, _, _, _, _, _, _, _, _)
executeSchedulesRetry(m, scheds, schedCount, count, i, currentTime, fails, now, sd) ==
    IF i >= schedCount THEN [m |-> m, schedules |-> scheds]
    ELSE LET item == scheds[i]
             due == ~item.executed /\ U32Le(item.targetTime, currentTime)
             valid == item.relayIndex >= 0 /\ item.relayIndex < 4
             toSlave == item.roomIndex >= 0 /\ item.roomIndex < count
             done ==
               IF item.roomIndex = -1
               THEN IF valid
                    THEN setMasterRelay(m, count, item.relayIndex,
                                        item.targetState, now, sd)
                    ELSE m
               ELSE IF toSlave /\ valid
                    THEN sendCommandToSlave(
                            m, count, item.roomIndex, item.relayIndex,
                            item.targetState,
                            IF i \in fails THEN "fail" ELSE "ok", now, sd)
                    ELSE m
             carried == valid /\ (item.roomIndex = -1
                                     \/ (toSlave /\ i \notin fails))
         IN IF due
            THEN executeSchedulesRetry(
                    done, [scheds EXCEPT ![i].executed = carried],
                    schedCount, count, i + 1, currentTime, fails, now, sd)
            ELSE executeSchedulesRetry(m, scheds, schedCount, count, i + 1,
                                       currentTime, fails, now, sd)

\* the first loop of processSchedules run from the last slot to the first:
\* i slots are done
RECURSIVE executeSchedulesReverse(_, _, _, _, _, _, _, _, _)
executeSchedulesReverse(m, scheds, schedCount, count, i, currentTime, fails, now, sd) ==
    IF i >= schedCount THEN [m |-> m, schedules |-> scheds]
    ELSE LET slot == schedCount - 1 - i
             item == scheds[slot]
             due == ~item.executed /\ U32Le(item.targetTime, currentTime)
             done ==
               IF item.roomIndex = -1
               THEN IF item.relayIndex >= 0 /\ item.relayIndex < 4
                    THEN setMasterRelay(m, count, item.relayIndex,
                                        item.targetState, now, sd)
                    ELSE m
               ELSE IF item.roomIndex >= 0 /\ item.roomIndex < count
                       /\ item.relayIndex >= 0 /\ item.relayIndex < 4
                    THEN sendCommandToSlave(
                            m, count, item.roomIndex, item.relayIndex,
                            item.targetState,
                            IF slot \in fails THEN "fail" ELSE "ok", now, sd)
                    ELSE m
         IN IF due
            THEN executeSchedulesReverse(
                    done, [scheds EXCEPT ![slot].executed = TRUE],
                    schedCount, count, i + 1, currentTime, fails, now, sd)
            ELSE executeSchedulesReverse(m, scheds, schedCount, count, i + 1,
                                         currentTime, fails, now, sd)

\* the first loop of processSchedules, from slot i: every schedule that is
\* due and not executed is carried out and marked.  fails are the slots
\* whose esp_now_send returns an error.
RECURSIVE executeSchedules(_, _, _, _, _, _, _, _, _)
executeSchedules(m, scheds, schedCount, count, i, currentTime, fails, now, sd) ==
    IF i >= schedCount THEN [m |-> m, schedules |-> scheds]
    ELSE LET item == scheds[i]
             due == ~item.executed /\ U32Le(item.targetTime, currentTime)
             done ==
               IF item.roomIndex = -1
               THEN IF item.relayIndex >= 0 /\ item.relayIndex < 4
                    THEN setMasterRelay(m, count, item.relayIndex,
                                        item.targetState, now, sd)
                    ELSE m
               ELSE IF item.roomIndex >= 0 /\ item.roomIndex < count
                       /\ item.relayIndex >= 0 /\ item.relayIndex < 4
                    THEN sendCommandToSlave(
                            m, count, item.roomIndex, item.relayIndex,
                            item.targetState,
                            IF i \in fails THEN "fail" ELSE "ok", now, sd)
                    ELSE m
         IN IF due
            THEN executeSchedules(done, [scheds EXCEPT ![i].executed = TRUE],
                                  schedCount, count, i + 1, currentTime,
                                  fails, now, sd)
            ELSE executeSchedules(m, scheds, schedCount, count, i + 1,
                                  currentTime, fails, now, sd)

\* the second loop of processSchedules filling the slot of a removed
\* schedule with the last one; newCount counts the schedules removed
RECURSIVE cleanSchedulesSwap(_, _, _, _, _)
cleanSchedulesSwap(scheds, schedCount, i, newCount, currentTime) ==
    IF i >= schedCount - newCount
    THEN [schedules |-> scheds, scheduleCount |-> schedCount - newCount]
    ELSE IF ~scheds[i].executed
            \/ U32Lt(U32Sub(currentTime, scheds[i].targetTime),
                     U32(RetentionMs))
         THEN cleanSchedulesSwap(scheds, schedCount, i + 1, newCount,
                                 currentTime)
         ELSE cleanSchedulesSwap(
                 [scheds EXCEPT ![i] = scheds[schedCount - newCount - 1]],
                 schedCount, i, newCount + 1, currentTime)

\* the second loop of processSchedules without the retention window: an
\* executed schedule is dropped at once
RECURSIVE cleanSchedulesAtOnce(_, _, _, _, _)
cleanSchedulesAtOnce(scheds, schedCount, i, newCount, currentTime) ==
    IF i >= schedCount
    THEN [schedules |-> scheds, scheduleCount |-> newCount]
    ELSE IF ~scheds[i].executed
         THEN cleanSchedulesAtOnce([scheds EXCEPT ![newCount] = scheds[i]],
                                   schedCount, i + 1, newCount + 1,
                                   currentTime)
         ELSE cleanSchedulesAtOnce(scheds, schedCount, i + 1, newCount,
                                   currentTime)

\* the second loop of processSchedules, from slot i: the schedules kept are
\* moved to the front; the slots behind newCount keep what they held
RECURSIVE cleanSchedules(_, _, _, _, _)
cleanSchedules(scheds, schedCount, i, newCount, currentTime) ==
    IF i >= schedCount
    THEN [schedules |-> scheds, scheduleCount |-> newCount]
    ELSE IF ~scheds[i].executed
            \/ U32Lt(U32Sub(currentTime, scheds[i].targetTime),
                     U32(RetentionMs))
         THEN cleanSchedules([scheds EXCEPT ![newCount] = scheds[i]],
                             schedCount, i + 1, newCount + 1, currentTime)
         ELSE cleanSchedules(scheds, schedCount, i + 1, newCount, currentTime)

(***************************************************************************)
(* The start: the state setup() leaves.  /slaves.txt lists n slaves, which *)
(* loadSlaveInfo registers in file order; a name read back keeps the       *)
(* carriage return println wrote behind it.  No relay is on.               *)
(***************************************************************************)
(***************************************************************************)
(* Reading the card back.  println ends a line with "\r\n" and            *)
(* readStringUntil('\n') stops in front of the "\n", so the text read back *)
(* ends with the "\r".                                                     *)
(***************************************************************************)
ReadBack(text) == text \o "\r"

\* the addresses a line of /slaves.txt may hold
FileMacs == {Mac(i) : i \in 1 .. MAX_SLAVES + 2}

\* sscanf "%x:%x:%x:%x:%x:%x" on the text getMacString wrote: the six bytes,
\* or << >> where six numbers are not read
sscanfMac(text) ==
    IF \E mac \in FileMacs : getMacString(mac) = text
    THEN CHOOSE mac \in FileMacs : getMacString(mac) = text
    ELSE << >>

\* roomName.substring(5).toInt() - 1 for a room name that starts with
\* "Slave"; -2 for any other name
SlaveIndexOf(room) ==
    IF \E s \in 0 .. MAX_SLAVES - 1 : roomName(s) = room
    THEN CHOOSE s \in 0 .. MAX_SLAVES - 1 : roomName(s) = room
    ELSE -2

\* loadSlaveInfo from line k of /slaves.txt on: accepts[k] says whether
\* esp_now_add_peer takes the address of line k
RECURSIVE loadSlaveInfo(_, _, _, _)
loadSlaveInfo(d, file, k, accepts) ==
    IF k > Len(file) \/ d.slaveCount >= MAX_SLAVES THEN d
    ELSE LET mac == sscanfMac(file[k].mac)
             written == [d.slaves EXCEPT ![d.slaveCount] =
                            [macAddress |-> mac, active |-> FALSE,
                             relayStates |-> AllOff,
                             name |-> ReadBack(file[k].name)]]
         IN IF mac = << >> THEN loadSlaveInfo(d, file, k + 1, accepts)
            ELSE IF esp_now_add_peer(d.peers, mac, accepts[k]) = "ok"
            THEN loadSlaveInfo([slaves |-> written,
                                slaveCount |-> d.slaveCount + 1,
                                peers |-> d.peers \cup {mac}],
                               file, k + 1, accepts)
            ELSE loadSlaveInfo([d EXCEPT !.slaves = written],
                               file, k + 1, accepts)

\* loadRelayStates from line k of /states.txt on; t holds the master's
\* table, the pins and the slaves
RECURSIVE loadRelayStates(_, _, _, _)
loadRelayStates(t, count, file, k) ==
    IF k > Len(file) THEN t
    ELSE LET line == file[k]
             state == ReadBack(line.state) = "ON"
             slaveIndex == SlaveIndexOf(line.room)
             next ==
               IF line.room = "Master" /\ line.relay >= 0 /\ line.relay < 4
               THEN [t EXCEPT !.master[line.relay] = state,
                              !.pins[line.relay] = PinLevel(state)]
               ELSE IF slaveIndex >= 0 /\ slaveIndex < count
                       /\ line.relay >= 0 /\ line.relay < 4
               THEN [t EXCEPT
                       !.slaves[slaveIndex].relayStates[line.relay] = state]
               ELSE t
         IN loadRelayStates(next, count, file, k + 1)

\* the request of a handleSchedule that has not been entered
NoRequest ==
    [hasParams |-> FALSE, roomIndex |-> 0, relayIndex |-> 0, state |-> FALSE,
     minutes |-> 0]

\* no handler has been entered
RaceIdle ==
    [cmd |-> [pc |-> "idle", relay |-> 0, state |-> FALSE],
     rcv |-> [pc |-> "idle", i |-> 0, data |-> <<0, 0, 0, 0>>],
     btn |-> [pc |-> "idle", relay |-> 0, state |-> FALSE, line |-> 0],
     web |-> [pc |-> "idle", relay |-> 0, state |-> FALSE, line |-> 0],
     handle |-> "closed",
     partial |-> << >>,
     tick |-> [pc |-> "idle", i |-> 0, newCount |-> 0, currentTime |-> U32(0)],
     enq |-> [pc |-> "idle", req |-> NoRequest, slot |-> 0],
     add |-> [pc |-> "idle", entry |-> EmptySlave],
     auto |-> [pc |-> "idle", entry |-> EmptySlave],
     overrun |-> FALSE]

LoadedSlave(i) ==
    [macAddress |-> Mac(i + 1), active |-> FALSE, relayStates |-> AllOff,
     name |-> "Room" \o DecStr(i + 1) \o "\r"]

setup(n) ==
    /\ masterRelayStates = AllOff
    /\ pins = [i \in Relays |-> "HIGH"]
    /\ slaves = [i \in 0 .. MAX_SLAVES - 1 |->
                    IF i < n THEN LoadedSlave(i) ELSE EmptySlave]
    /\ slaveCount = n
    /\ peers = {Mac(i + 1) : i \in 0 .. n - 1}
    /\ schedules = [i \in 0 .. MAX_SCHEDULES - 1 |-> EmptySchedule]
    /\ scheduleCount = 0
    /\ millis = U32(0)
    /\ rtc = 1
    /\ relaysFile = << >>
    /\ statesFile = StateLines(AllOff, [i \in 0 .. n - 1 |-> EmptySlave], n)
    /\ slavesFile = [k \in 1 .. n |-> [mac |-> getMacString(Mac(k)),
                                       name |-> "Room" \o DecStr(k)]]
    /\ ops = 0
    /\ elapsed = 0
    /\ sdFaults = 0
    /\ last = [op |-> "setup"]
    /\ race = RaceIdle

\* one slave on the card
Init == setup(1)

\* one slave short of a full directory on the card
InitDirectory == setup(MAX_SLAVES - 1)

\* no slave on the card
InitAlone == setup(0)

(***************************************************************************)
(* The inputs of the handlers.                                             *)
(***************************************************************************)
SendResults == {"ok", "fail"}

\* GET /toggle: the master's and the first slave's relay 0, on and off, and
\* a relay that does not exist
ToggleRequests ==
    {[roomIndex |-> 0, relayIndex |-> 4, state |-> TRUE]}
    \cup [roomIndex : {-1, 0}, relayIndex : {0}, state : BOOLEAN]

\* the buttons read: button 0, buttons 0 and 2
ButtonMasks == {1, 5}

\* the room the rotary encoder has selected
RotaryPositions == {0, 1}

\* what esp_now_send returns for each button's command
ButtonResults ==
    {[i \in Relays |-> "ok"], [i \in Relays |-> "fail"],
     [i \in Relays |-> IF i = 0 THEN "fail" ELSE "ok"]}

\* the senders of Spec: the slave on the card and a stranger
SyncMacs == {Mac(1), Mac(MAX_SLAVES + 1)}

\* the payloads received: status reports (a byte other than 1 is OFF) and
\* a message that is not sizeof(StatusData) long
Payloads == {<<0, 0, 0, 0>>, <<1, 0, 1, 0>>, <<1, 2, 0, 0>>, <<1, 0>>}

\* the senders, and the addresses asked for, of SpecDirectory: a slave on
\* the card and two strangers
DirectoryMacs == {Mac(1), Mac(MAX_SLAVES + 1), Mac(MAX_SLAVES + 2)}

DirectoryPayloads == {<<1, 0, 1, 0>>}

\* POST /add_slave: without parameters, with an address sscanf does not
\* read, with the addresses of DirectoryMacs
AddRequests ==
    {[hasParams |-> FALSE, parsed |-> FALSE, macBytes |-> Mac(1),
      name |-> "Kitchen"],
     [hasParams |-> TRUE, parsed |-> FALSE, macBytes |-> Mac(1),
      name |-> "Kitchen"]}
    \cup [hasParams : {TRUE}, parsed : {TRUE}, macBytes : DirectoryMacs,
          name : {"Kitchen"}]

\* POST /schedule: the requests that fill the table
FillRequests ==
    {[hasParams |-> TRUE, roomIndex |-> -1, relayIndex |-> 0,
      state |-> TRUE, minutes |-> 1]}

\* POST /schedule in SpecTick: the master's relay 0 on and off in a minute,
\* the first slave's relay 0, a room that is no slave, and delays
\* handleSchedule refuses
TickRequests ==
    [hasParams : {TRUE}, roomIndex : {-1}, relayIndex : {0},
     state : BOOLEAN, minutes : {1}]
    \cup [hasParams : {TRUE}, roomIndex : {-1}, relayIndex : {0},
          state : {TRUE}, minutes : {0, MaxMinutes + 1}]
    \cup [hasParams : {TRUE}, roomIndex : {0, 5}, relayIndex : {0},
          state : {TRUE}, minutes : {1}]

\* the slots whose command esp_now_send refuses during one processSchedules
FailSlotSets == {{}, {0}}

(***************************************************************************)
(* The actions: one handler each, run to completion.                       *)
(***************************************************************************)
\* the handler's writes to the relay tables and to the two files
Commit(m) ==
    /\ masterRelayStates' = m.master
    /\ pins' = m.pins
    /\ slaves' = m.slaves
    /\ relaysFile' = m.log
    /\ statesFile' = m.states

\* what the card may do during the next handler
SdChoices == IF sdFaults < MaxSdFaults THEN SdOutcomes ELSE {"ok"}

\* the card's answer counts where the handler called the card `calls` times
SdUsed(calls, sd) ==
    /\ calls = 0 => sd = "ok"
    /\ sdFaults' = IF sd = "ok" THEN sdFaults ELSE sdFaults + 1

\* what the handler did, for `last`
Effects(m, sd) ==
    [logCalls |-> m.logCalls, saveCalls |-> m.saveCalls, sends |-> m.sends,
     sd |-> sd]

\* the relay tables and the length of /relays.txt as the handler finds
\* them, for `last`
Before ==
    [master |-> masterRelayStates,
     slaves |-> [i \in 0 .. slaveCount - 1 |-> slaves[i].relayStates],
     log |-> Len(relaysFile)]

\* GET /toggle with its three parameters
WebToggle ==
    \E req \in ToggleRequests :
    \E result \in IF req.roomIndex >= 0 /\ req.relayIndex < 4
                   THEN SendResults ELSE {"ok"},
       sd \in SdChoices :
    \E m \in {handleRelayToggle(Memory, slaveCount, req.roomIndex,
                                req.relayIndex, req.state, result,
                                RtcNow(rtc), sd)} :
        /\ SdUsed(m.logCalls + m.saveCalls, sd)
        /\ Commit(m)
        /\ last' = [op |-> "toggle", req |-> req, before |-> Before,
                    did |-> Effects(m, sd)]
        /\ UNCHANGED <<slaveCount, peers, schedules, scheduleCount, millis,
                       rtc, slavesFile, elapsed>>

\* loop(): handleTM1638Buttons with buttons pressed
Buttons ==
    \E buttons \in ButtonMasks, pos \in RotaryPositions,
       results \in ButtonResults, sd \in SdChoices :
    \E m \in {handleTM1638Buttons(Memory, slaveCount, buttons, pos, 0,
                                  results, RtcNow(rtc), sd)} :
        /\ pos <= slaveCount
        /\ pos = 0 => results = [i \in Relays |-> "ok"]
        /\ SdUsed(m.logCalls + m.saveCalls, sd)
        /\ Commit(m)
        /\ last' = [op |-> "buttons", buttons |-> buttons,
                    rotaryPosition |-> pos, before |-> Before,
                    did |-> Effects(m, sd)]
        /\ UNCHANGED <<slaveCount, peers, schedules, scheduleCount, millis,
                       rtc, slavesFile, elapsed>>

\* onDataReceived(mac, data, data_len), from a sender of macs with a
\* payload of payloads
Receive(macs, payloads) ==
    \E mac \in macs, data \in payloads, accept \in BOOLEAN,
       sd \in SdChoices :
    \E slaveIndex \in {FindSlave(slaves, slaveCount, mac)} :
    \E m \in {IF slaveIndex # -1
                 THEN LET marked == [Memory EXCEPT
                                       !.slaves[slaveIndex].active = TRUE]
                      IN IF Len(data) = StatusDataSize
                         THEN applyStatus(marked, slaveCount, slaveIndex,
                                          data, 0, RtcNow(rtc), sd)
                         ELSE marked
                 ELSE Memory} :
    \E d \in {IF slaveIndex # -1 THEN [Directory EXCEPT !.slaves = m.slaves]
                 ELSE autoAddSlave(Directory, mac, accept, sd)} :
        /\ SdUsed(m.logCalls + m.saveCalls + d.dirSaves, sd)
        /\ accept \/ (slaveIndex = -1 /\ slaveCount < MAX_SLAVES
                      /\ mac \notin peers)
        /\ masterRelayStates' = m.master
        /\ pins' = m.pins
        /\ relaysFile' = m.log
        /\ statesFile' = m.states
        /\ slaves' = d.slaves
        /\ slaveCount' = d.slaveCount
        /\ peers' = d.peers
        /\ slavesFile' = d.slavesFile
        /\ last' = [op |-> "recv", mac |-> mac, data |-> data,
                    slaveIndex |-> slaveIndex,
                    count |-> slaveCount,
                    addPeer |-> IF slaveIndex = -1 /\ slaveCount < MAX_SLAVES
                                THEN esp_now_add_peer(peers, mac, accept)
                                ELSE "none",
                    before |-> Before,
                    did |-> Effects(m, sd),
                    dirSaves |-> d.dirSaves,
                    repeat |-> /\ last.op = "recv"
                               /\ last.mac = mac
                               /\ last.data = data
                               /\ last.slaveIndex # -1]
        /\ UNCHANGED <<schedules, scheduleCount, millis, rtc, elapsed>>

\* POST /add_slave
WebAddSlave ==
    \E req \in AddRequests, accept \in BOOLEAN, sd \in SdChoices :
    \E d \in {handleAddSlave(Directory, req, accept, sd)} :
    \E tried \in {req.hasParams /\ slaveCount < MAX_SLAVES /\ req.parsed},
       mac \in {[k \in 1 .. 6 |-> req.macBytes[k] % 256]} :
        /\ SdUsed(d.dirSaves, sd)
        /\ accept \/ (tried /\ mac \notin peers)
        /\ slaves' = d.slaves
        /\ slaveCount' = d.slaveCount
        /\ peers' = d.peers
        /\ slavesFile' = d.slavesFile
        /\ last' = [op |-> "addSlave", req |-> req,
                    count |-> slaveCount,
                    mac |-> mac,
                    slaveIndex |-> FindSlave(slaves, slaveCount, mac),
                    addPeer |-> IF tried
                                THEN esp_now_add_peer(peers, mac, accept)
                                ELSE "none",
                    dirSaves |-> d.dirSaves, sd |-> sd]
        /\ UNCHANGED <<masterRelayStates, pins, schedules, scheduleCount,
                       millis, rtc, relaysFile, statesFile, elapsed>>

\* POST /schedule, with a request of reqs
WebSchedule(reqs) ==
    \E req \in reqs :
    \E r \in {handleSchedule(schedules, scheduleCount, req, millis)} :
        /\ schedules' = r.schedules
        /\ scheduleCount' = r.scheduleCount
        /\ last' = [op |-> "schedule", req |-> req, count |-> scheduleCount]
        /\ UNCHANGED <<masterRelayStates, pins, slaves, slaveCount, peers,
                       millis, rtc, relaysFile, statesFile, slavesFile,
                       elapsed, sdFaults>>

\* loop(): processSchedules()
ProcessSchedules ==
    \E failSlots \in FailSlotSets, sd \in SdChoices :
    \E x \in {executeSchedules(Memory, schedules, scheduleCount, slaveCount,
                               0, millis, failSlots, RtcNow(rtc), sd)} :
    \E c \in {cleanSchedules(x.schedules, scheduleCount, 0, 0, millis)} :
        /\ SdUsed(x.m.logCalls + x.m.saveCalls, sd)
        /\ Commit(x.m)
        /\ schedules' = c.schedules
        /\ scheduleCount' = c.scheduleCount
        /\ last' = [op |-> "processSchedules", did |-> Effects(x.m, sd),
                    count |-> scheduleCount]
        /\ UNCHANGED <<slaveCount, peers, millis, rtc, slavesFile, elapsed>>

\* time passes: one retention window on the millisecond counter, the next
\* instant on the real-time clock
ElapseWithin(limit) ==
    /\ elapsed < limit
    /\ rtc < Len(RtcInstants)
    /\ elapsed' = elapsed + 1
    /\ rtc' = rtc + 1
    /\ millis' = U32Add(millis, U32(RetentionMs))
    /\ last' = [op |-> "elapse"]
    /\ UNCHANGED <<masterRelayStates, pins, slaves, slaveCount, peers,
                   schedules, scheduleCount, relaysFile, statesFile,
                   slavesFile, sdFaults>>

Elapse == ElapseWithin(MaxElapse)

\* the "Recent Logs" card of handleWebRoot: the lines of /relays.txt behind
\* the header go round a buffer of ten, lastLines[lineCount % 10], and the
\* card shows min(lineCount, 10) of them from slot `start` on
recentLogs(file) ==
    LET lineCount == Len(file)
        lastLines == [slot \in 0 .. RecentLines - 1 |->
                         LET ks == {k \in 0 .. lineCount - 1 :
                                       k % RecentLines = slot}
                         IN IF ks = {} THEN ""
                            ELSE file[(CHOOSE k \in ks :
                                          \A j \in ks : j <= k) + 1]]
        start == IF lineCount < RecentLines THEN 0
                 ELSE lineCount % RecentLines
        shown == IF lineCount < RecentLines THEN lineCount ELSE RecentLines
    IN [i \in 1 .. shown |-> lastLines[(start + i - 1) % RecentLines]]

\* GET /: the page changes nothing; its log card shows recentLogs, or that
\* the card did not mount
WebRoot ==
    \E sd \in SdChoices :
        /\ SdUsed(1, sd)
        /\ last' = [op |-> "webRoot", sd |-> sd,
                    logs |-> IF sd = "ok" THEN recentLogs(relaysFile)
                             ELSE << >>]
        /\ UNCHANGED <<masterRelayStates, pins, slaves, slaveCount, peers,
                       schedules, scheduleCount, millis, rtc, relaysFile,
                       statesFile, slavesFile, elapsed>>

(***************************************************************************)
(* A command and a status report at the same time.  loop() runs in the     *)
(* Arduino loop task, onDataReceived in the task of the WiFi driver; the   *)
(* sketch takes no lock and masks no interrupt, so the statements of the   *)
(* two interleave.  race.cmd is sendCommandToSlave for relay race.cmd.relay *)
(* of slave 0, called from loop(); race.rcv is onDataReceived for a status *)
(* report of slave 0, at relay race.rcv.i.  A pc names the statement that  *)
(* comes next.                                                             *)
(***************************************************************************)
\* the reports that meet a command
RacePayloads == {<<0, 0, 0, 0>>, <<1, 0, 1, 0>>}

\* the relays commanded
RaceRelays == {0}

\* the value onDataReceived stores where the table differs from the report,
\* storing the opposite of what the table holds
reconciledToggle(current, newState) == ~current

\* the value onDataReceived stores where the table differs from the report
reconciled(current, newState) == newState

\* esp_now_send of sendCommandToSlave, and the test of what it returned
CmdSend ==
    \E relay \in RaceRelays, state \in BOOLEAN, result \in SendResults :
        /\ race.cmd.pc = "idle"
        /\ slaveCount > 0
        /\ race' = [race EXCEPT
                       !.cmd = [pc |-> IF result = "ok" THEN "set" ELSE "done",
                                relay |-> relay, state |-> state]]
        /\ last' = [op |-> "cmdSend", result |-> result]
        /\ UNCHANGED <<masterRelayStates, pins, slaves, slaveCount, peers,
                       schedules, scheduleCount, millis, rtc, relaysFile,
                       statesFile, slavesFile, ops, elapsed, sdFaults>>

\* slaves[slaveIndex].relayStates[relayIndex] = state
CmdSet ==
    /\ race.cmd.pc = "set"
    /\ slaves' = [slaves EXCEPT
                     ![0].relayStates[race.cmd.relay] = race.cmd.state]
    /\ race' = [race EXCEPT !.cmd.pc = "log"]
    /\ last' = [op |-> "cmdSet"]
    /\ UNCHANGED <<masterRelayStates, pins, slaveCount, peers, schedules,
                   scheduleCount, millis, rtc, relaysFile, statesFile,
                   slavesFile, ops, elapsed, sdFaults>>

\* logRelayChange(slaveIndex, relayIndex, state)
CmdLog ==
    \E sd \in SdChoices :
        /\ race.cmd.pc = "log"
        /\ SdUsed(1, sd)
        /\ relaysFile' = logRelayChange(relaysFile, 0, race.cmd.relay,
                                        race.cmd.state, RtcNow(rtc), sd)
        /\ race' = [race EXCEPT !.cmd.pc = "save"]
        /\ last' = [op |-> "cmdLog", sd |-> sd]
        /\ UNCHANGED <<masterRelayStates, pins, slaves, slaveCount, peers,
                       schedules, scheduleCount, millis, rtc, statesFile,
                       slavesFile, ops, elapsed>>

\* saveRelayStates()
CmdSave ==
    \E sd \in SdChoices :
        /\ race.cmd.pc = "save"
        /\ SdUsed(1, sd)
        /\ statesFile' = saveRelayStates(statesFile, masterRelayStates,
                                         slaves, slaveCount, sd)
        /\ race' = [race EXCEPT !.cmd.pc = "done"]
        /\ last' = [op |-> "cmdSave", sd |-> sd]
        /\ UNCHANGED <<masterRelayStates, pins, slaves, slaveCount, peers,
                       schedules, scheduleCount, millis, rtc, relaysFile,
                       slavesFile, ops, elapsed>>

\* where onDataReceived stands once relay i is done
RcvAfter(i) ==
    [race.rcv EXCEPT !.pc = IF i + 1 >= 4 THEN "done" ELSE "compare",
                     !.i = IF i + 1 >= 4 THEN i ELSE i + 1]

\* onDataReceived finds the sender, slave 0, and marks it active; the
\* message is a status report
RcvFind ==
    \E data \in RacePayloads :
        /\ race.rcv.pc = "idle"
        /\ FindSlave(slaves, slaveCount, Mac(1)) = 0
        /\ Len(data) = StatusDataSize
        /\ slaves' = [slaves EXCEPT ![0].active = TRUE]
        /\ race' = [race EXCEPT
                       !.rcv = [pc |-> "compare", i |-> 0, data |-> data]]
        /\ last' = [op |-> "rcvFind"]
        /\ UNCHANGED <<masterRelayStates, pins, slaveCount, peers, schedules,
                       scheduleCount, millis, rtc, relaysFile, statesFile,
                       slavesFile, ops, elapsed, sdFaults>>

\* if (slaves[slaveIndex].relayStates[i] != newState)
RcvCompare ==
    /\ race.rcv.pc = "compare"
    /\ race' = [race EXCEPT
                   !.rcv = IF slaves[0].relayStates[race.rcv.i]
                              # ReportedState(race.rcv.data, race.rcv.i)
                           THEN [@ EXCEPT !.pc = "set"]
                           ELSE RcvAfter(race.rcv.i)]
    /\ last' = [op |-> "rcvCompare"]
    /\ UNCHANGED <<masterRelayStates, pins, slaves, slaveCount, peers,
                   schedules, scheduleCount, millis, rtc, relaysFile,
                   statesFile, slavesFile, ops, elapsed, sdFaults>>

\* slaves[slaveIndex].relayStates[i] = newState
RcvSet ==
    /\ race.rcv.pc = "set"
    /\ slaves' = [slaves EXCEPT
                     ![0].relayStates[race.rcv.i] =
                        reconciled(@, ReportedState(race.rcv.data,
                                                    race.rcv.i))]
    /\ race' = [race EXCEPT !.rcv.pc = "log"]
    /\ last' = [op |-> "rcvSet"]
    /\ UNCHANGED <<masterRelayStates, pins, slaveCount, peers, schedules,
                   scheduleCount, millis, rtc, relaysFile, statesFile,
                   slavesFile, ops, elapsed, sdFaults>>

\* logRelayChange(slaveIndex, i, newState)
RcvLog ==
    \E sd \in SdChoices :
        /\ race.rcv.pc = "log"
        /\ SdUsed(1, sd)
        /\ relaysFile' = logRelayChange(
                             relaysFile, 0, race.rcv.i,
                             ReportedState(race.rcv.data, race.rcv.i),
                             RtcNow(rtc), sd)
        /\ race' = [race EXCEPT !.rcv.pc = "save"]
        /\ last' = [op |-> "rcvLog", sd |-> sd]
        /\ UNCHANGED <<masterRelayStates, pins, slaves, slaveCount, peers,
                       schedules, scheduleCount, millis, rtc, statesFile,
                       slavesFile, ops, elapsed>>

\* saveRelayStates(), and on to the next relay
RcvSave ==
    \E sd \in SdChoices :
        /\ race.rcv.pc = "save"
        /\ SdUsed(1, sd)
        /\ statesFile' = saveRelayStates(statesFile, masterRelayStates,
                                         slaves, slaveCount, sd)
        /\ race' = [race EXCEPT !.rcv = RcvAfter(race.rcv.i)]
        /\ last' = [op |-> "rcvSave", sd |-> sd]
        /\ UNCHANGED <<masterRelayStates, pins, slaves, slaveCount, peers,
                       schedules, scheduleCount, millis, rtc, relaysFile,
                       slavesFile, ops, elapsed>>

\* a reset: setup() runs again on the card as it is.  The globals start
\* from their initialisers, setupRelays drives the pins HIGH, the peer list
\* of ESP-NOW is empty, and loadSlaveInfo and loadRelayStates read the card
\* if it mounts.
Restart ==
    \E accepts \in [1 .. Len(slavesFile) -> BOOLEAN], sd \in SdChoices :
    \E d \in {IF sd = "ok"
                 THEN loadSlaveInfo(
                         [slaves |-> [i \in 0 .. MAX_SLAVES - 1 |-> EmptySlave],
                          slaveCount |-> 0, peers |-> {}],
                         slavesFile, 1, accepts)
                 ELSE [slaves |-> [i \in 0 .. MAX_SLAVES - 1 |-> EmptySlave],
                       slaveCount |-> 0, peers |-> {}]} :
    \E t \in {IF sd = "ok"
                 THEN loadRelayStates(
                         [master |-> AllOff,
                          pins |-> [i \in Relays |-> "HIGH"],
                          slaves |-> d.slaves],
                         d.slaveCount, statesFile, 1)
                 ELSE [master |-> AllOff, pins |-> [i \in Relays |-> "HIGH"],
                       slaves |-> d.slaves]} :
        /\ SdUsed(1, sd)
        /\ masterRelayStates' = t.master
        /\ pins' = t.pins
        /\ slaves' = t.slaves
        /\ slaveCount' = d.slaveCount
        /\ peers' = d.peers
        /\ schedules' = [i \in 0 .. MAX_SCHEDULES - 1 |-> EmptySchedule]
        /\ scheduleCount' = 0
        /\ millis' = U32(0)
        /\ last' = [op |-> "restart", sd |-> sd, accepts |-> accepts]
        /\ UNCHANGED <<rtc, relaysFile, statesFile, slavesFile, elapsed>>

(***************************************************************************)
(* A button and a web request for the master's relays at the same time.    *)
(* handleTM1638Buttons runs in loop(), handleRelayToggle in the task of    *)
(* the web server.  race.btn and race.web say where each stands; a pc      *)
(* names the statement that comes next.  Both write /states.txt through    *)
(* the one global File dataFile: race.handle says whether dataFile is      *)
(* open on /states.txt, race.partial holds the "room,relay," texts         *)
(* printed since the last println.  The card works throughout.             *)
(***************************************************************************)
\* the relays toggled
LocalRelays == {0}

\* the number of lines saveRelayStates prints behind the header
SaveLines == 4 * (slaveCount + 1)

\* "room,relay," as saveRelayStates prints it in front of a state
PrefixText(p) == p.room \o "," \o DecStr(p.relay) \o ","

RECURSIVE PrefixTexts(_)
PrefixTexts(ps) ==
    IF ps = << >> THEN "" ELSE PrefixText(Head(ps)) \o PrefixTexts(Tail(ps))

\* the line of /states.txt made of the texts printed in front of it and
\* the text that ends it, cut at its first two commas as loadRelayStates
\* cuts it; a line without a comma has no room
PrintedLine(ps, text) ==
    IF ps = << >> THEN [room |-> "", relay |-> 0, state |-> text]
    ELSE [room |-> Head(ps).room, relay |-> Head(ps).relay,
          state |-> PrefixTexts(Tail(ps)) \o text]

\* dataFile is closed or assigned anew: what was printed since the last
\* println stays in the file as its last line
Flushed(file) ==
    IF race.handle = "open" /\ race.partial # << >>
    THEN Append(file, PrintedLine(race.partial, ""))
    ELSE file

\* the state saveRelayStates prints on line k (counted from 0)
SavedState(k) ==
    IF k < 4 THEN masterRelayStates[k % 4]
    ELSE slaves[(k \div 4) - 1].relayStates[k % 4]

\* handleRelayToggle, master branch: masterRelayStates[relayIndex] = state
WebSet ==
    \E relay \in LocalRelays, state \in BOOLEAN :
        /\ race.web.pc = "idle"
        /\ masterRelayStates' = [masterRelayStates EXCEPT ![relay] = state]
        /\ race' = [race EXCEPT !.web = [pc |-> "pin", relay |-> relay,
                                         state |-> state, line |-> 0]]
        /\ last' = [op |-> "webSet"]
        /\ UNCHANGED <<pins, slaves, slaveCount, peers, schedules,
                       scheduleCount, millis, rtc, relaysFile, statesFile,
                       slavesFile, ops, elapsed, sdFaults>>

\* digitalWrite(relayPins[relayIndex], state ? LOW : HIGH)
WebPin ==
    /\ race.web.pc = "pin"
    /\ pins' = [pins EXCEPT ![race.web.relay] = PinLevel(race.web.state)]
    /\ race' = [race EXCEPT !.web.pc = "log"]
    /\ last' = [op |-> "webPin"]
    /\ UNCHANGED <<masterRelayStates, slaves, slaveCount, peers, schedules,
                   scheduleCount, millis, rtc, relaysFile, statesFile,
                   slavesFile, ops, elapsed, sdFaults>>

\* logRelayChange(-1, relayIndex, state), which opens /relays.txt through
\* dataFile and closes it
WebLog ==
    /\ race.web.pc = "log"
    /\ relaysFile' = logRelayChange(relaysFile, -1, race.web.relay,
                                    race.web.state, RtcNow(rtc), "ok")
    /\ statesFile' = Flushed(statesFile)
    /\ race' = [race EXCEPT !.web.pc = "open", !.handle = "closed",
                            !.partial = << >>]
    /\ last' = [op |-> "webLog"]
    /\ UNCHANGED <<masterRelayStates, pins, slaves, slaveCount, peers,
                   schedules, scheduleCount, millis, rtc, slavesFile, ops,
                   elapsed, sdFaults>>

\* handleTM1638Buttons with the master selected and the button of a relay
\* pressed: masterRelayStates[i] = !masterRelayStates[i]
BtnSet ==
    \E i \in LocalRelays :
        /\ race.btn.pc = "idle"
        /\ masterRelayStates' = [masterRelayStates EXCEPT ![i] = ~@]
        /\ race' = [race EXCEPT !.btn = [pc |-> "pin", relay |-> i,
                                         state |-> FALSE, line |-> 0]]
        /\ last' = [op |-> "btnSet"]
        /\ UNCHANGED <<pins, slaves, slaveCount, peers, schedules,
                       scheduleCount, millis, rtc, relaysFile, statesFile,
                       slavesFile, ops, elapsed, sdFaults>>

\* digitalWrite(relayPins[i], masterRelayStates[i] ? LOW : HIGH)
BtnPin ==
    /\ race.btn.pc = "pin"
    /\ pins' = [pins EXCEPT ![race.btn.relay] =
                                PinLevel(masterRelayStates[race.btn.relay])]
    /\ race' = [race EXCEPT !.btn.pc = "log"]
    /\ last' = [op |-> "btnPin"]
    /\ UNCHANGED <<masterRelayStates, slaves, slaveCount, peers, schedules,
                   scheduleCount, millis, rtc, relaysFile, statesFile,
                   slavesFile, ops, elapsed, sdFaults>>

\* logRelayChange(-1, i, masterRelayStates[i])
BtnLog ==
    /\ race.btn.pc = "log"
    /\ relaysFile' = logRelayChange(relaysFile, -1, race.btn.relay,
                                    masterRelayStates[race.btn.relay],
                                    RtcNow(rtc), "ok")
    /\ statesFile' = Flushed(statesFile)
    /\ race' = [race EXCEPT !.btn.pc = "open", !.handle = "closed",
                            !.partial = << >>]
    /\ last' = [op |-> "btnLog"]
    /\ UNCHANGED <<masterRelayStates, pins, slaves, slaveCount, peers,
                   schedules, scheduleCount, millis, rtc, slavesFile, ops,
                   elapsed, sdFaults>>

\* saveRelayStates of task t, up to the header: the old file is removed,
\* dataFile is opened on a new one and the header printed
SaveOpen(t) ==
    /\ race[t].pc = "open"
    /\ statesFile' = << >>
    /\ race' = [race EXCEPT ![t].pc = "prefix", ![t].line = 0,
                            !.handle = "open", !.partial = << >>]
    /\ last' = [op |-> "saveOpen", task |-> t]
    /\ UNCHANGED <<masterRelayStates, pins, slaves, slaveCount, peers,
                   schedules, scheduleCount, millis, rtc, relaysFile,
                   slavesFile, ops, elapsed, sdFaults>>

\* the prints of the room, the relay and the commas of one line; a print
\* to a closed dataFile writes nothing
SavePrefix(t) ==
    /\ race[t].pc = "prefix"
    /\ race' = [race EXCEPT
                   ![t].pc = "value",
                   !.partial =
                      IF race.handle = "open"
                      THEN Append(@, [room |-> roomName((race[t].line \div 4)
                                                          - 1),
                                      relay |-> race[t].line % 4])
                      ELSE @]
    /\ last' = [op |-> "savePrefix", task |-> t]
    /\ UNCHANGED <<masterRelayStates, pins, slaves, slaveCount, peers,
                   schedules, scheduleCount, millis, rtc, relaysFile,
                   statesFile, slavesFile, ops, elapsed, sdFaults>>

\* the println of the state of one line, read from the table now
SaveValue(t) ==
    /\ race[t].pc = "value"
    /\ statesFile' =
          IF race.handle = "open"
          THEN Append(statesFile,
                      PrintedLine(race.partial,
                                  stateStr(SavedState(race[t].line))))
          ELSE statesFile
    /\ race' = [race EXCEPT
                   ![t].pc = IF race[t].line + 1 >= SaveLines THEN "close"
                             ELSE "prefix",
                   ![t].line = @ + 1,
                   !.partial = << >>]
    /\ last' = [op |-> "saveValue", task |-> t]
    /\ UNCHANGED <<masterRelayStates, pins, slaves, slaveCount, peers,
                   schedules, scheduleCount, millis, rtc, relaysFile,
                   slavesFile, ops, elapsed, sdFaults>>

\* dataFile.close()
SaveClose(t) ==
    /\ race[t].pc = "close"
    /\ statesFile' = Flushed(statesFile)
    /\ race' = [race EXCEPT ![t].pc = "done", !.handle = "closed",
                            !.partial = << >>]
    /\ last' = [op |-> "saveClose", task |-> t]
    /\ UNCHANGED <<masterRelayStates, pins, slaves, slaveCount, peers,
                   schedules, scheduleCount, millis, rtc, relaysFile,
                   slavesFile, ops, elapsed, sdFaults>>

\* a handler that counts against MaxOps, and one that does not
Counted(A) == ops < MaxOps /\ ops' = ops + 1 /\ race' = race /\ A

Uncounted(A) == ops' = ops /\ race' = race /\ A

(***************************************************************************)
(* The synchronizer: commands and status reports, one slave on the card.   *)
(***************************************************************************)
Next ==
    \/ Counted(WebToggle)
    \/ Counted(Buttons)
    \/ Counted(Receive(SyncMacs, Payloads))
    \/ Counted(Elapse)

Spec == Init /\ [][Next]_vars

(***************************************************************************)
(* The directory: registrations, one slave short of a full directory.      *)
(***************************************************************************)
\* the synchronizer and the dashboard
NextLog ==
    \/ Counted(WebToggle)
    \/ Counted(Receive(SyncMacs, Payloads))
    \/ Counted(WebRoot)

SpecLog == Init /\ [][NextLog]_vars

\* one command of loop() and one status report, statement by statement
NextRace ==
    \/ CmdSend
    \/ CmdSet
    \/ CmdLog
    \/ CmdSave
    \/ RcvFind
    \/ RcvCompare
    \/ RcvSet
    \/ RcvLog
    \/ RcvSave

SpecRace == Init /\ [][NextRace]_vars

\* the synchronizer and the reset button
NextRestart ==
    \/ Counted(WebToggle)
    \/ Counted(Receive(SyncMacs, Payloads))
    \/ Counted(Restart)

SpecRestart == Init /\ [][NextRestart]_vars

\* one button and one web request for the master, statement by statement
NextLocal ==
    \/ WebSet
    \/ WebPin
    \/ WebLog
    \/ BtnSet
    \/ BtnPin
    \/ BtnLog
    \/ SaveOpen("web")
    \/ SavePrefix("web")
    \/ SaveValue("web")
    \/ SaveClose("web")
    \/ SaveOpen("btn")
    \/ SavePrefix("btn")
    \/ SaveValue("btn")
    \/ SaveClose("btn")

SpecLocal == InitAlone /\ [][NextLocal]_vars

NextDirectory ==
    \/ Counted(Receive(DirectoryMacs, DirectoryPayloads))
    \/ Counted(WebAddSlave)

SpecDirectory == InitDirectory /\ [][NextDirectory]_vars

(***************************************************************************)
(* The scheduler, with requests that fill its table.                       *)
(***************************************************************************)
NextSchedule ==
    \/ Uncounted(WebSchedule(FillRequests))
    \/ Uncounted(ProcessSchedules)
    \/ Uncounted(Elapse)

SpecSchedule == Init /\ [][NextSchedule]_vars

(***************************************************************************)
(* The scheduler over time: a few schedules, stored, carried out, purged,  *)
(* while the clocks run through RtcInstants.                               *)
(***************************************************************************)
NextTick ==
    \/ Uncounted(scheduleCount < MaxQueue /\ WebSchedule(TickRequests))
    \/ Uncounted(ProcessSchedules)
    \/ Uncounted(ElapseWithin(Len(RtcInstants) - 1))

SpecTick == Init /\ [][NextTick]_vars

(***************************************************************************)
(* Properties of the synchronizer (Spec).                                  *)
(***************************************************************************)
\* C1: a command that sets a relay to the value it already holds is a
\* no-op: it calls neither logRelayChange nor saveRelayStates and
\* /relays.txt has no new line.
C1_SameValueCommandIsNoOp ==
    (/\ last.op = "toggle"
     /\ last.req.relayIndex \in Relays
     /\ last.req.roomIndex < slaveCount
     /\ last.req.state =
           IF last.req.roomIndex = -1
           THEN last.before.master[last.req.relayIndex]
           ELSE last.before.slaves[last.req.roomIndex][last.req.relayIndex])
    => /\ last.did.logCalls = 0
       /\ last.did.saveCalls = 0
       /\ Len(relaysFile) = last.before.log

C3_ReconcileIdempotent ==
    (/\ last.op = "recv"
     /\ last.repeat
     /\ Len(last.data) = StatusDataSize)
    => /\ last.did.logCalls = 0
       /\ last.did.saveCalls = 0
       /\ Len(relaysFile) = last.before.log
       /\ slaves[last.slaveIndex].relayStates
             = last.before.slaves[last.slaveIndex]

\* a report that turned two relays on, handled a second time
C3_SecondHandling ==
    /\ last.op = "recv"
    /\ last.repeat
    /\ last.data = <<1, 0, 1, 0>>
    /\ Len(relaysFile) = 2
    /\ slaves[last.slaveIndex].relayStates[2]

C5_VectorEqualsReport ==
    (/\ last.op = "recv"
     /\ last.slaveIndex # -1
     /\ Len(last.data) = StatusDataSize)
    => \A i \in Relays :
          slaves[last.slaveIndex].relayStates[i] = (last.data[i + 1] = 1)

\* a report with a byte of 2 that finds relay 0 on after a command: relay 0
\* stays on, relay 1 is off
C5_ReportAfterCommand ==
    /\ last.op = "recv"
    /\ last.slaveIndex # -1
    /\ last.data = <<1, 2, 0, 0>>
    /\ last.before.slaves[last.slaveIndex][0]
    /\ slaves[last.slaveIndex].relayStates = [i \in Relays |-> i = 0]

\* C6: a status report from an address that is not in the directory, below
\* MAX_SLAVES and with the peer added: the sender is registered with the
\* name "Auto <mac>" and active, its relays are the reported ones and
\* /relays.txt has a line for every relay reported on.
C6_UnknownSenderIsReconciled ==
    (/\ last.op = "recv"
     /\ last.slaveIndex = -1
     /\ last.addPeer = "ok"
     /\ Len(last.data) = StatusDataSize)
    => /\ slaveCount = last.count + 1
       /\ slaves[last.count].macAddress = last.mac
       /\ slaves[last.count].name = "Auto " \o getMacString(last.mac)
       /\ slaves[last.count].active
       /\ \A i \in Relays :
             slaves[last.count].relayStates[i] = (last.data[i + 1] = 1)
       /\ last.did.sd = "ok"
          => \A i \in Relays :
                last.data[i + 1] = 1
                => \E k \in 1 .. Len(relaysFile) :
                      /\ relaysFile[k].room = "Slave" \o DecStr(last.count + 1)
                      /\ relaysFile[k].relay = i
                      /\ relaysFile[k].state = "ON"

C8_FullDirectoryDropsRegistration ==
    [][(/\ slaveCount = MAX_SLAVES
        /\ \/ last'.op = "addSlave"
           \/ last'.op = "recv" /\ last'.slaveIndex = -1)
       => UNCHANGED <<slaveCount, slaves, peers, slavesFile>>]_vars

\* a message from an unknown sender that finds MAX_SLAVES slaves
C8_UnknownSenderAtCap ==
    /\ last.op = "recv"
    /\ last.slaveIndex = -1
    /\ last.count = MAX_SLAVES
    /\ last.mac \notin peers
    /\ slaveCount = MAX_SLAVES

C10_FullQueueRejectsEnqueue ==
    [][(scheduleCount = MAX_SCHEDULES /\ last'.op = "schedule")
       => UNCHANGED <<scheduleCount, schedules>>]_vars

\* POST /schedule that finds MAX_SCHEDULES schedules, an executed one
\* among them
C10_EnqueueAtCap ==
    /\ last.op = "schedule"
    /\ last.count = MAX_SCHEDULES
    /\ scheduleCount = MAX_SCHEDULES
    /\ \E i \in 0 .. scheduleCount - 1 : schedules[i].executed
    /\ \E i \in 0 .. scheduleCount - 1 : ~schedules[i].executed

(***************************************************************************)
(* Properties of the scheduler over time (SpecTick).                       *)
(***************************************************************************)
\* C11: POST /schedule with a delay below 1 minute or above 1440 minutes
\* leaves the schedules and their number as they were; with a delay of
\* 1 .. 1440 minutes and a free slot it stores one schedule behind the
\* stored ones, not executed, due at millis() + minutes * 60000, and leaves
\* the stored ones as they were.
C11_EnqueueValidatesDelay ==
    [][(last'.op = "schedule")
       => IF last'.req.minutes < 1 \/ last'.req.minutes > 1440
          THEN UNCHANGED <<schedules, scheduleCount>>
          ELSE scheduleCount < MAX_SCHEDULES
               => /\ scheduleCount' = scheduleCount + 1
                  /\ \A i \in 0 .. scheduleCount - 1 :
                        schedules'[i] = schedules[i]
                  /\ schedules'[scheduleCount] =
                        [roomIndex |-> last'.req.roomIndex,
                         relayIndex |-> last'.req.relayIndex,
                         targetState |-> last'.req.state,
                         targetTime |->
                            U32Add(millis, U32(last'.req.minutes * 60000)),
                         executed |-> FALSE]]_vars

\* POST /schedule with a delay of 1441 minutes that finds a schedule stored
C11_DelayRefused ==
    /\ last.op = "schedule"
    /\ last.req.minutes = 1441
    /\ last.count > 0
    /\ scheduleCount = last.count

\* C12: processSchedules carries out the schedules that are due and not
\* executed in slot order, the order they were stored in: the lines it
\* appends to /relays.txt and the commands it sends follow that order, and
\* a relay that several of them set ends in the state of the last one.
C12_DueInInsertionOrder ==
    [][(last'.op = "processSchedules")
       => LET due == {i \in 0 .. scheduleCount - 1 :
                         /\ ~schedules[i].executed
                         /\ U32Le(schedules[i].targetTime, millis)
                         /\ schedules[i].relayIndex \in 0 .. 3}
              toMaster == {i \in due : schedules[i].roomIndex = -1}
              toSlave == {i \in due : schedules[i].roomIndex \in
                                         0 .. slaveCount - 1}
              sends == last'.did.sends
              accepted == {i \in toSlave :
                              sends[Cardinality({j \in toSlave : j <= i})]
                                 .result = "ok"}
              logged == toMaster \cup accepted
              new == SubSeq(relaysFile', Len(relaysFile) + 1, Len(relaysFile'))
          IN /\ Len(sends) = Cardinality(toSlave)
             /\ \A i \in toSlave :
                   LET s == sends[Cardinality({j \in toSlave : j <= i})]
                   IN /\ s.mac = slaves[schedules[i].roomIndex].macAddress
                      /\ s.targetRelay = schedules[i].relayIndex
                      /\ s.state = schedules[i].targetState
             /\ last'.did.logCalls = Cardinality(logged)
             /\ last'.did.sd = "ok"
                => /\ Len(new) = Cardinality(logged)
                   /\ \A i \in logged :
                         LET line == new[Cardinality({j \in logged : j <= i})]
                         IN /\ line.room =
                                  (IF schedules[i].roomIndex = -1
                                   THEN "Master"
                                   ELSE "Slave"
                                        \o DecStr(schedules[i].roomIndex + 1))
                            /\ line.relay = schedules[i].relayIndex
                            /\ line.state =
                                  (IF schedules[i].targetState THEN "ON"
                                   ELSE "OFF")
             /\ \A r \in Relays :
                   LET setters == {i \in toMaster :
                                      schedules[i].relayIndex = r}
                   IN masterRelayStates'[r] =
                         IF setters = {} THEN masterRelayStates[r]
                         ELSE schedules[CHOOSE i \in setters :
                                           \A j \in setters : j <= i]
                                 .targetState
             /\ \A n \in 0 .. slaveCount - 1, r \in Relays :
                   LET setters == {i \in accepted :
                                      /\ schedules[i].roomIndex = n
                                      /\ schedules[i].relayIndex = r}
                   IN slaves'[n].relayStates[r] =
                         IF setters = {} THEN slaves[n].relayStates[r]
                         ELSE schedules[CHOOSE i \in setters :
                                           \A j \in setters : j <= i]
                                 .targetState]_vars

\* on, then off, stored for the master's relay 0 and due together: the
\* log has on before off and the relay is off
C12_OnThenOff ==
    /\ last.op = "processSchedules"
    /\ last.did.logCalls = 2
    /\ Len(relaysFile) = 2
    /\ relaysFile[1].state = "ON"
    /\ relaysFile[2].state = "OFF"
    /\ relaysFile[1].relay = relaysFile[2].relay
    /\ relaysFile[1].room = relaysFile[2].room
    /\ relaysFile[1].timestamp = relaysFile[2].timestamp
    /\ ~masterRelayStates[0]

\* C13: a schedule is carried out at most once, and not before millis()
\* has reached its targetTime.  A run of processSchedules issues one command
\* for each schedule that is due and not executed and none for any other;
\* afterwards no stored schedule is both due and not executed, whether the
\* command was accepted, refused by esp_now_send or skipped for an invalid
\* target; the schedules still waiting are the ones that were waiting and
\* not due.  No other handler changes an executed flag or a relay.
C13_CarriedOutOnce ==
    [][LET waiting == {i \in 0 .. scheduleCount - 1 : ~schedules[i].executed}
           due == {i \in waiting : U32Le(schedules[i].targetTime, millis)}
           valid == {i \in due : schedules[i].relayIndex \in 0 .. 3}
           toMaster == {i \in valid : schedules[i].roomIndex = -1}
           toSlave == {i \in valid :
                          schedules[i].roomIndex \in 0 .. slaveCount - 1}
           waiting2 == {i \in 0 .. scheduleCount' - 1 : ~schedules'[i].executed}
       IN IF last'.op = "processSchedules"
          THEN LET sends == last'.did.sends
                   oks == {k \in 1 .. Len(sends) : sends[k].result = "ok"}
               IN /\ Len(sends) = Cardinality(toSlave)
                  /\ last'.did.logCalls =
                        Cardinality(toMaster) + Cardinality(oks)
                  /\ due = {}
                     => UNCHANGED <<masterRelayStates, pins, slaves,
                                    relaysFile, statesFile>>
                  /\ \A i \in waiting2 :
                        U32Lt(millis, schedules'[i].targetTime)
                  /\ Cardinality(waiting2) = Cardinality(waiting \ due)
                  /\ \A i \in waiting \ due :
                        \E j \in waiting2 : schedules'[j] = schedules[i]
          ELSE /\ \A i \in 0 .. scheduleCount - 1 :
                     schedules'[i].executed = schedules[i].executed
               /\ UNCHANGED <<masterRelayStates, pins, slaves, relaysFile,
                              statesFile>>]_vars

\* the command of a schedule for slave 0 was refused, the schedule is
\* marked, and a later run of processSchedules has sent nothing
C13_RefusedNotRetried ==
    /\ last.op = "processSchedules"
    /\ last.did.sends = <<>>
    /\ last.did.logCalls = 0
    /\ \E i \in 0 .. scheduleCount - 1 :
          /\ schedules[i].executed
          /\ schedules[i].roomIndex = 0
          /\ schedules[i].relayIndex = 0
          /\ schedules[i].targetState
    /\ ~slaves[0].relayStates[0]
    /\ relaysFile = <<>>

C20_PurgeKeepsOrder ==
    [][(last'.op = "processSchedules")
       => LET executed(i) ==
                 \/ schedules[i].executed
                 \/ U32Le(schedules[i].targetTime, millis)
              kept == {i \in 0 .. scheduleCount - 1 :
                          \/ ~executed(i)
                          \/ U32Lt(U32Sub(millis, schedules[i].targetTime),
                                   U32(RetentionMs))}
              place(i) == Cardinality({j \in kept : j < i})
          IN /\ \A i \in kept :
                   /\ place(i) < scheduleCount'
                   /\ schedules'[place(i)] =
                         [schedules[i] EXCEPT !.executed = executed(i)]
             /\ \A a, b \in kept : a < b <=> place(a) < place(b)]_vars

\* a run of processSchedules removed the first of three schedules; the two
\* kept were stored at different times and the earlier stored is in front
C20_EarlierStays ==
    /\ last.op = "processSchedules"
    /\ last.count = 3
    /\ scheduleCount = 2
    /\ U32Lt(schedules[0].targetTime, schedules[1].targetTime)
    /\ U32Lt(millis, schedules[1].targetTime)

(***************************************************************************)
(* Properties of the log (Spec).                                           *)
(***************************************************************************)
\* C15: the duration of every line of /relays.txt is the time from the
\* last earlier line of the same room and relay whose state differs to the
\* line itself, and 0 when no earlier line of that room and relay has a
\* different state.
C15_DurationSinceOtherState ==
    \A k \in 1 .. Len(relaysFile) :
       LET line == relaysFile[k]
           time(j) == unixtime(ParseTimestamp(relaysFile[j].timestamp))
           others == {j \in 1 .. k - 1 :
                         /\ relaysFile[j].room = line.room
                         /\ relaysFile[j].relay = line.relay
                         /\ relaysFile[j].state # line.state}
       IN line.duration =
             IF others = {} THEN U32(0)
             ELSE U32Sub(time(k),
                         time(CHOOSE j \in others : \A i \in others : i <= j))

(***************************************************************************)
(* Properties of the active flag (SpecDirectory).                          *)
(***************************************************************************)
\* C18: onDataReceived sets the active flag of the registered slave whose
\* address sent the message, and registers an unknown sender as active;
\* no handler clears the flag of a registered slave or removes the slave,
\* so a slave once active stays active, also when further slaves are
\* registered.
C18_ActiveStays ==
    [][/\ slaveCount' >= slaveCount
       /\ \A i \in 0 .. slaveCount - 1 :
             /\ slaves'[i].macAddress = slaves[i].macAddress
             /\ slaves[i].active => slaves'[i].active
             /\ (last'.op = "recv" /\ last'.mac = slaves[i].macAddress)
                => slaves'[i].active
       /\ (last'.op = "recv" /\ slaveCount' > slaveCount)
          => /\ slaves'[slaveCount].macAddress = last'.mac
             /\ slaves'[slaveCount].active]_vars

\* slave 0 has sent a message and is active; POST /add_slave has then
\* registered the tenth slave, which is not
C18_ActiveAcrossRegistration ==
    /\ last.op = "addSlave"
    /\ last.count = MAX_SLAVES - 1
    /\ slaveCount = MAX_SLAVES
    /\ slaves[0].active
    /\ ~slaves[MAX_SLAVES - 1].active

\* C19: the log card of the dashboard shows the last min(10, length) lines
\* of /relays.txt, newest first: the first line shown is the last appended
\* and every following one the line appended just before it.
C19_NewestFirst ==
    (last.op = "webRoot" /\ last.sd = "ok")
    => LET n == Len(relaysFile)
           shown == last.logs
       IN /\ Len(shown) = (IF n < RecentLines THEN n ELSE RecentLines)
          /\ \A k \in 1 .. Len(shown) : shown[k] = relaysFile[n - k + 1]

(***************************************************************************)
(* Properties of a command that meets a status report (SpecRace).          *)
(***************************************************************************)
\* C16: the writes of one relay of one slave are serialized: while the
\* command of loop() has stored its value and has not yet logged and saved
\* it, onDataReceived is not between its comparison of the same relay and
\* the end of its own store, log and save.
C16_Serialized ==
    ~(/\ race.cmd.pc \in {"log", "save"}
      /\ race.rcv.pc \in {"set", "log", "save"}
      /\ race.rcv.i = race.cmd.relay)

\* C17: once the command and the status report are both through, the relay
\* holds the state the command asked for or the state the slave reported.
C17_FinalValueRequested ==
    (race.cmd.pc = "done" /\ race.rcv.pc = "done")
    => slaves[0].relayStates[race.cmd.relay]
          \in {race.cmd.state,
               ReportedState(race.rcv.data, race.cmd.relay)}

\* both are through after their statements interleaved: the relay holds
\* the command's state, and the last line of the log is the report's
C17_InterleavedAndDone ==
    /\ race.cmd.pc = "done"
    /\ race.rcv.pc = "done"
    /\ race.cmd.state # ReportedState(race.rcv.data, race.cmd.relay)
    /\ slaves[0].relayStates[race.cmd.relay] = race.cmd.state
    /\ LET k == LastLine(relaysFile, roomName(0), race.cmd.relay)
       IN /\ k = 2
          /\ relaysFile[k].state = stateStr(~race.cmd.state)

(***************************************************************************)
(* Properties of what POST /schedule accepts (SpecTick).                   *)
(***************************************************************************)
\* C21: POST /schedule for a relay outside 0..3, or for a room that is
\* neither -1 nor the index of a registered slave, changes neither the
\* schedule table nor scheduleCount.
C21_EnqueueValidatesTarget ==
    [][(/\ last'.op = "schedule"
        /\ \/ last'.req.relayIndex \notin 0 .. 3
           \/ last'.req.roomIndex \notin {-1} \cup (0 .. slaveCount - 1))
       => UNCHANGED <<schedules, scheduleCount>>]_vars

(***************************************************************************)
(* Properties of a restart (SpecRestart).                                  *)
(***************************************************************************)
\* C22: a restart on a card that mounts and whose /slaves.txt lists the
\* registered slaves brings every slave back under its index and address,
\* also when ESP-NOW refuses one of the addresses, and gives every relay
\* of the master and of the slaves the state its line of /states.txt holds.
C22_RestartRoundTrip ==
    [][(/\ last'.op = "restart"
        /\ last'.sd = "ok"
        /\ Len(slavesFile) = slaveCount
        /\ \A i \in 0 .. slaveCount - 1 :
              slavesFile[i + 1].mac = getMacString(slaves[i].macAddress))
       => /\ slaveCount' = slaveCount
          /\ \A i \in 0 .. slaveCount - 1 :
                slaves'[i].macAddress = slaves[i].macAddress
          /\ \A k \in 1 .. Len(statesFile) :
                LET line == statesFile[k]
                    on == line.state = "ON"
                IN IF line.room = "Master"
                   THEN masterRelayStates'[line.relay] = on
                   ELSE SlaveIndexOf(line.room) \in 0 .. slaveCount - 1
                        => slaves'[SlaveIndexOf(line.room)]
                              .relayStates[line.relay] = on]_vars

(***************************************************************************)
(* Properties of the files against the tables (SpecRace).                  *)
(***************************************************************************)
\* C23: while neither the command nor the status report is under way and
\* the card has worked every time, the last line of /relays.txt for a
\* relay of slave 0 names the state the table holds for that relay.
C23_LogAgreesWithTable ==
    (/\ race.cmd.pc \in {"idle", "done"}
     /\ race.rcv.pc \in {"idle", "done"}
     /\ sdFaults = 0)
    => \A r \in Relays :
          LET k == LastLine(relaysFile, roomName(0), r)
          IN k # 0
             => relaysFile[k].state = stateStr(slaves[0].relayStates[r])

(***************************************************************************)
(* Properties of the master's relays under a button and a web request at   *)
(* the same time (SpecLocal).                                              *)
(***************************************************************************)
\* C24: with the card working, while neither writer is under way and at
\* least one of them has saved, /states.txt holds for every relay of the
\* master it has a line for the state the table holds: the last line of
\* the relay, read as loadRelayStates cuts it, says ON exactly if the relay
\* is on.
C24_SnapshotAgreesWithTable ==
    (/\ race.btn.pc \in {"idle", "done"}
     /\ race.web.pc \in {"idle", "done"}
     /\ "done" \in {race.btn.pc, race.web.pc})
    => \A r \in Relays :
          LET ks == {k \in 1 .. Len(statesFile) :
                        /\ statesFile[k].room = "Master"
                        /\ statesFile[k].relay = r}
          IN ks # {}
             => (statesFile[CHOOSE k \in ks : \A j \in ks : j <= k].state
                    = "ON") = masterRelayStates[r]

\* C28: while no command for the master is under way, the pin of each
\* relay is LOW exactly if masterRelayStates holds the relay as on.
C28_PinAgreesWithTable ==
    (/\ race.btn.pc \in {"idle", "done"}
     /\ race.web.pc \in {"idle", "done"})
    => \A i \in Relays : pins[i] = PinLevel(masterRelayStates[i])

(***************************************************************************)
(* The scheduler where the millisecond counter wraps: the sketch has run   *)
(* for Uptime, and schedules are stored whose fire time lies before and    *)
(* behind 2^32.                                                            *)
(***************************************************************************)
\* time passes: from start-up to Uptime
LongElapse ==
    /\ millis = U32(0)
    /\ rtc = 1
    /\ millis' = Uptime
    /\ rtc' = Len(RtcInstants) + 1
    /\ last' = [op |-> "uptime"]
    /\ UNCHANGED <<masterRelayStates, pins, slaves, slaveCount, peers,
                   schedules, scheduleCount, relaysFile, statesFile,
                   slavesFile, elapsed, sdFaults>>

\* POST /schedule in SpecWrap: the master's relay 0 on and off, in one minute
\* and in three
WrapRequests ==
    [hasParams : {TRUE}, roomIndex : {-1}, relayIndex : {0},
     state : BOOLEAN, minutes : {1, 3}]

NextWrap ==
    \/ Uncounted(LongElapse)
    \/ Counted(WebSchedule(WrapRequests))
    \/ Uncounted(ProcessSchedules)

SpecWrap == Init /\ [][NextWrap]_vars

\* C27: a schedule is not carried out before its delay has passed: the
\* processSchedules that runs right after handleSchedule has stored a
\* schedule, at the same value of millis(), leaves that schedule in the
\* table, not executed, also when millis() + delay wraps around 2^32.
C27_NotBeforeDelay ==
    [][(/\ last.op = "schedule"
        /\ scheduleCount = last.count + 1
        /\ last'.op = "processSchedules")
       => \E j \in 0 .. scheduleCount' - 1 :
              /\ schedules'[j] = schedules[last.count]
              /\ ~schedules'[j].executed]_vars

(***************************************************************************)
(* handleSchedule in the web server's task against processSchedules in     *)
(* loop(), statement by statement.  Both work on schedules[] and           *)
(* scheduleCount; the sketch takes no lock.                                *)
(***************************************************************************)
\* the schedule handleSchedule writes for a request at millis() = now
scheduleItem(req, now) ==
    [roomIndex |-> req.roomIndex,
     relayIndex |-> req.relayIndex,
     targetState |-> req.state,
     targetTime |-> U32Add(now, U32(req.minutes * 60 * 1000)),
     executed |-> FALSE]

\* handleSchedule: the tests in front of the writes
EnqCheck ==
    \E req \in TickRequests :
        /\ race.enq.pc \in {"idle", "done", "refused"}
        /\ scheduleCount < MaxQueue
        /\ race' = [race EXCEPT
                       !.enq = [pc |-> IF /\ req.hasParams
                                          /\ scheduleCount < MAX_SCHEDULES
                                          /\ req.minutes > 0
                                          /\ req.minutes <= MaxMinutes
                                       THEN "write" ELSE "refused",
                                req |-> req, slot |-> 0]]
        /\ last' = [op |-> "enqCheck", req |-> req]
        /\ UNCHANGED <<masterRelayStates, pins, slaves, slaveCount, peers,
                       schedules, scheduleCount, millis, rtc, relaysFile,
                       statesFile, slavesFile, ops, elapsed, sdFaults>>

\* handleSchedule: the five fields of schedules[scheduleCount]
EnqWrite ==
    /\ race.enq.pc = "write"
    /\ schedules' = [schedules EXCEPT
                        ![scheduleCount] = scheduleItem(race.enq.req, millis)]
    /\ race' = [race EXCEPT !.enq.pc = "count", !.enq.slot = scheduleCount]
    /\ last' = [op |-> "enqWrite"]
    /\ UNCHANGED <<masterRelayStates, pins, slaves, slaveCount, peers,
                   scheduleCount, millis, rtc, relaysFile, statesFile,
                   slavesFile, ops, elapsed, sdFaults>>

\* handleSchedule: scheduleCount++
EnqCount ==
    /\ race.enq.pc = "count"
    /\ scheduleCount' = scheduleCount + 1
    /\ race' = [race EXCEPT !.enq.pc = "done"]
    /\ last' = [op |-> "enqCount"]
    /\ UNCHANGED <<masterRelayStates, pins, slaves, slaveCount, peers,
                   schedules, millis, rtc, relaysFile, statesFile,
                   slavesFile, ops, elapsed, sdFaults>>

\* processSchedules: currentTime = millis()
TickStart ==
    /\ race.tick.pc \in {"idle", "done"}
    /\ race' = [race EXCEPT
                   !.tick = [pc |-> "exec", i |-> 0, newCount |-> 0,
                             currentTime |-> millis]]
    /\ last' = [op |-> "tickStart"]
    /\ UNCHANGED <<masterRelayStates, pins, slaves, slaveCount, peers,
                   schedules, scheduleCount, millis, rtc, relaysFile,
                   statesFile, slavesFile, ops, elapsed, sdFaults>>

\* processSchedules: the first loop, over the schedules counted when it
\* starts
TickExec ==
    \E failSlots \in FailSlotSets, sd \in SdChoices :
    \E x \in {executeSchedules(Memory, schedules, scheduleCount, slaveCount,
                               0, race.tick.currentTime, failSlots,
                               RtcNow(rtc), sd)} :
        /\ race.tick.pc = "exec"
        /\ SdUsed(x.m.logCalls + x.m.saveCalls, sd)
        /\ Commit(x.m)
        /\ schedules' = x.schedules
        /\ race' = [race EXCEPT !.tick.pc = "purge"]
        /\ last' = [op |-> "tickExec", did |-> Effects(x.m, sd)]
        /\ UNCHANGED <<slaveCount, peers, scheduleCount, millis, rtc,
                       slavesFile, ops, elapsed>>

\* processSchedules: one pass of the second loop, the test i < scheduleCount
\* and the body
TickPurge ==
    /\ race.tick.pc = "purge"
    /\ LET i == race.tick.i
           newCount == race.tick.newCount
       IN IF i < scheduleCount
          THEN IF ~schedules[i].executed
                  \/ U32Lt(U32Sub(race.tick.currentTime,
                                  schedules[i].targetTime),
                           U32(RetentionMs))
               THEN /\ schedules' = [schedules EXCEPT
                                        ![newCount] = schedules[i]]
                    /\ race' = [race EXCEPT !.tick.i = i + 1,
                                            !.tick.newCount = newCount + 1]
               ELSE /\ schedules' = schedules
                    /\ race' = [race EXCEPT !.tick.i = i + 1]
          ELSE /\ schedules' = schedules
               /\ race' = [race EXCEPT !.tick.pc = "assign"]
    /\ last' = [op |-> "tickPurge"]
    /\ UNCHANGED <<masterRelayStates, pins, slaves, slaveCount, peers,
                   scheduleCount, millis, rtc, relaysFile, statesFile,
                   slavesFile, ops, elapsed, sdFaults>>

\* processSchedules: scheduleCount = newCount
TickAssign ==
    /\ race.tick.pc = "assign"
    /\ scheduleCount' = race.tick.newCount
    /\ race' = [race EXCEPT !.tick.pc = "done"]
    /\ last' = [op |-> "tickAssign"]
    /\ UNCHANGED <<masterRelayStates, pins, slaves, slaveCount, peers,
                   schedules, millis, rtc, relaysFile, statesFile,
                   slavesFile, ops, elapsed, sdFaults>>

NextEnqueue ==
    \/ EnqCheck
    \/ EnqWrite
    \/ EnqCount
    \/ TickStart
    \/ TickExec
    \/ TickPurge
    \/ TickAssign
    \/ Uncounted(Elapse)

SpecEnqueue == Init /\ [][NextEnqueue]_vars

\* C25: no accepted schedule is lost: when handleSchedule has stored a
\* schedule and raised scheduleCount, and no processSchedules is under way,
\* the table holds that schedule within scheduleCount, with the room, relay,
\* state and fire time it was stored with.
C25_AcceptedStaysQueued ==
    (/\ race.enq.pc = "done"
     /\ race.tick.pc \in {"idle", "done"})
    => \E j \in 0 .. scheduleCount - 1 :
           /\ schedules[j].roomIndex = race.enq.req.roomIndex
           /\ schedules[j].relayIndex = race.enq.req.relayIndex
           /\ schedules[j].targetState = race.enq.req.state
           /\ \E k \in 0 .. elapsed :
                  schedules[j].targetTime =
                      scheduleItem(race.enq.req, U32(k * RetentionMs)).targetTime

(***************************************************************************)
(* handleAddSlave in the web server's task against the branch of           *)
(* onDataReceived for an unknown sender in the WiFi task, statement by     *)
(* statement, t being "add" or "auto".  Both work on slaves[], slaveCount  *)
(* and the peer list; the sketch takes no lock.  slaves[] has MAX_SLAVES   *)
(* slots: race.overrun records an access behind the last one, after which  *)
(* nothing is known of the sketch.                                         *)
(***************************************************************************)
\* handleAddSlave: the tests in front of the writes
AddCheck ==
    \E req \in AddRequests :
        /\ ~race.overrun
        /\ race.add.pc \in {"idle", "done"}
        /\ race' = [race EXCEPT
                       !.add = [pc |-> IF /\ req.hasParams
                                          /\ slaveCount < MAX_SLAVES
                                          /\ req.parsed
                                       THEN "write" ELSE "done",
                                entry |->
                                    [macAddress |->
                                         [k \in 1 .. 6 |->
                                              req.macBytes[k] % 256],
                                     active |-> FALSE,
                                     relayStates |-> AllOff,
                                     name |-> req.name]]]
        /\ last' = [op |-> "addCheck", req |-> req]
        /\ UNCHANGED <<masterRelayStates, pins, slaves, slaveCount, peers,
                       schedules, scheduleCount, millis, rtc, relaysFile,
                       statesFile, slavesFile, ops, elapsed, sdFaults>>

\* onDataReceived: the search through slaves[0 .. slaveCount - 1] that finds
\* no slave with the sender's address, and the test slaveCount < MAX_SLAVES
AutoFind ==
    \E mac \in DirectoryMacs :
        /\ ~race.overrun
        /\ race.auto.pc \in {"idle", "done"}
        /\ IF slaveCount <= MAX_SLAVES
           THEN /\ FindSlave(slaves, slaveCount, mac) = -1
                /\ race' = [race EXCEPT
                               !.auto =
                                   [pc |-> IF slaveCount < MAX_SLAVES
                                           THEN "write" ELSE "done",
                                    entry |->
                                        [macAddress |-> mac,
                                         active |-> TRUE,
                                         relayStates |-> AllOff,
                                         name |-> "Auto " \o
                                                  getMacString(mac)]]]
           ELSE race' = [race EXCEPT !.overrun = TRUE]
        /\ last' = [op |-> "autoFind", mac |-> mac]
        /\ UNCHANGED <<masterRelayStates, pins, slaves, slaveCount, peers,
                       schedules, scheduleCount, millis, rtc, relaysFile,
                       statesFile, slavesFile, ops, elapsed, sdFaults>>

\* the address, the name, active and the relay states of slaves[slaveCount]
SlotWrite(t) ==
    /\ ~race.overrun
    /\ race[t].pc = "write"
    /\ IF slaveCount < MAX_SLAVES
       THEN /\ slaves' = [slaves EXCEPT ![slaveCount] = race[t].entry]
            /\ race' = [race EXCEPT ![t].pc = "peer"]
       ELSE /\ slaves' = slaves
            /\ race' = [race EXCEPT ![t].pc = "done", !.overrun = TRUE]
    /\ last' = [op |-> "slotWrite", task |-> t]
    /\ UNCHANGED <<masterRelayStates, pins, slaveCount, peers, schedules,
                   scheduleCount, millis, rtc, relaysFile, statesFile,
                   slavesFile, ops, elapsed, sdFaults>>

\* memcpy(peerInfo.peer_addr, slaves[slaveCount].macAddress, 6) and
\* esp_now_add_peer(&peerInfo) == ESP_OK
PeerAdd(t) ==
    \E accept \in BOOLEAN :
        /\ ~race.overrun
        /\ race[t].pc = "peer"
        /\ IF slaveCount < MAX_SLAVES
           THEN \E mac \in {slaves[slaveCount].macAddress} :
                \E result \in {esp_now_add_peer(peers, mac, accept)} :
                    /\ accept \/ mac \notin peers
                    /\ peers' = IF result = "ok" THEN peers \cup {mac}
                                 ELSE peers
                    /\ race' = [race EXCEPT
                                   ![t].pc = IF result = "ok" THEN "count"
                                             ELSE "done"]
           ELSE /\ accept
                /\ peers' = peers
                /\ race' = [race EXCEPT ![t].pc = "done", !.overrun = TRUE]
        /\ last' = [op |-> "peerAdd", task |-> t]
        /\ UNCHANGED <<masterRelayStates, pins, slaves, slaveCount,
                       schedules, scheduleCount, millis, rtc, relaysFile,
                       statesFile, slavesFile, ops, elapsed, sdFaults>>

\* slaveCount++
CountUp(t) ==
    /\ ~race.overrun
    /\ race[t].pc = "count"
    /\ slaveCount' = slaveCount + 1
    /\ race' = [race EXCEPT ![t].pc = "save"]
    /\ last' = [op |-> "countUp", task |-> t]
    /\ UNCHANGED <<masterRelayStates, pins, slaves, peers, schedules,
                   scheduleCount, millis, rtc, relaysFile, statesFile,
                   slavesFile, ops, elapsed, sdFaults>>

\* saveSlaveInfo(), which reads slaves[0 .. slaveCount - 1]
DirSave(t) ==
    \E sd \in SdChoices :
        /\ ~race.overrun
        /\ race[t].pc = "save"
        /\ IF slaveCount <= MAX_SLAVES \/ sd # "ok"
           THEN /\ slavesFile' = saveSlaveInfo(slavesFile, slaves,
                                               slaveCount, sd)
                /\ race' = [race EXCEPT ![t].pc = "done"]
           ELSE /\ slavesFile' = slavesFile
                /\ race' = [race EXCEPT ![t].pc = "done", !.overrun = TRUE]
        /\ SdUsed(1, sd)
        /\ last' = [op |-> "dirSave", task |-> t, sd |-> sd]
        /\ UNCHANGED <<masterRelayStates, pins, slaves, slaveCount, peers,
                       schedules, scheduleCount, millis, rtc, relaysFile,
                       statesFile, ops, elapsed>>

NextAdd ==
    \/ AddCheck
    \/ AutoFind
    \/ SlotWrite("add")
    \/ SlotWrite("auto")
    \/ PeerAdd("add")
    \/ PeerAdd("auto")
    \/ CountUp("add")
    \/ CountUp("auto")
    \/ DirSave("add")
    \/ DirSave("auto")

SpecAdd == InitDirectory /\ [][NextAdd]_vars

\* C26: the tables stay within their arrays: slaveCount is between 0 and
\* MAX_SLAVES, scheduleCount is between 0 and MAX_SCHEDULES, and no slot
\* behind slaves[MAX_SLAVES - 1] is accessed, also when handleAddSlave and
\* the registration of an unknown sender run at the same time with one slot
\* left.
C26_BoundedTables ==
    /\ 0 <= slaveCount /\ slaveCount <= MAX_SLAVES
    /\ 0 <= scheduleCount /\ scheduleCount <= MAX_SCHEDULES
    /\ ~race.overrun

====
